---- MODULE Spec2Model ----
(***************************************************************************)
(* A model of the topology creator of pyats.contrib                        *)
(* (src/src/pyats/contrib/creators/topology.py): the neighbor record       *)
(* normalizer, the device registry (device_list), the connection ledger    *)
(* (device_connections), the link grouper and the discovery loop.          *)
(*                                                                         *)
(* Python dictionaries whose iteration order the code relies on are        *)
(* modelled as association lists (sequences of records, in insertion       *)
(* order); Python sets are sets; Python strings are strings, and the       *)
(* `in` test on strings is the substring test it is in Python.             *)
(***************************************************************************)
EXTENDS Integers, Sequences, FiniteSets, TLC

VARIABLES
    \* ---- configuration (Topology._init_arguments)
    only_links,            \* self._only_links
    exclude_interfaces,    \* self._exclude_interfaces, the string as given
    exclude_networks,      \* the parsed networks of self._exclude_network
    add_unconnected_interfaces, \* self._add_unconnected_interfaces
    proxy_set,             \* the proxies get_credentials_and_proxies returns
    \* ---- the registry and the ledgers
    device_list,           \* the Device Registry, in insertion order
    device_connections,    \* device -> the ledger built for that device
    \* ---- the inventory (testbed)
    devices,               \* testbed.devices, in insertion order
    links,                 \* every Link object created, in creation order
    proxy_chains,          \* every proxy step list created, by reference
    raised,                \* the exception that ended the run, or None
    \* ---- the discovery loop (_generate)
    pc,                    \* the step of the loop that runs next
    visited,               \* dev_man.visited_devices
    result,                \* what get_neigbor_data returned in this round
    conn_dict,             \* what process_neighbor_data returned in this round
    round,                 \* number of rounds started
    devices0,              \* the names of the inventory at discovery start
    testbed_yaml,          \* the testbed file as loaded by safe_load, then as returned
    \* ---- bookkeeping of the model
    facts,                 \* the adjacency facts handed to the link grouper so far
    calls,                 \* number of operations applied so far
    last                   \* the last operation applied and its arguments

cfgvars == <<only_links, exclude_interfaces, exclude_networks,
             add_unconnected_interfaces, proxy_set>>
tbvars == <<devices, links, proxy_chains, raised>>
loopvars == <<pc, visited, result, conn_dict, round, devices0, testbed_yaml>>
vars == <<only_links, exclude_interfaces, exclude_networks,
          add_unconnected_interfaces, proxy_set,
          device_list, device_connections, devices, links, proxy_chains, raised,
          pc, visited, result, conn_dict, round, devices0, testbed_yaml,
          facts, calls, last>>

\* Python's None
None == "None"

\* a Python dict without keys
EmptyDict == [key \in {} |-> None]

\* a testbed file without devices and without a topology section
NoYaml == [devices |-> EmptyDict, has_topology |-> FALSE, topology |-> EmptyDict]

\* the discovery loop is not running: the operations are applied on their own
LoopIdle ==
    /\ pc = "idle"
    /\ visited = {}
    /\ result = <<>>
    /\ conn_dict = <<>>
    /\ round = 0
    /\ devices0 = {}
    /\ testbed_yaml = NoYaml

(***************************************************************************)
(* Strings                                                                 *)
(***************************************************************************)

\* `a in b` for two Python strings: a occurs in b as a contiguous substring
IsSubstring(a, b) ==
    \E i \in 1..(Len(b) - Len(a) + 1) : SubSeq(b, i, i + Len(a) - 1) = a

\* the characters [-\w] of the host name pattern (ASCII)
WordChars ==
    {"a", "b", "c", "d", "e", "f", "g", "h", "i", "j", "k", "l", "m",
     "n", "o", "p", "q", "r", "s", "t", "u", "v", "w", "x", "y", "z",
     "A", "B", "C", "D", "E", "F", "G", "H", "I", "J", "K", "L", "M",
     "N", "O", "P", "Q", "R", "S", "T", "U", "V", "W", "X", "Y", "Z",
     "0", "1", "2", "3", "4", "5", "6", "7", "8", "9", "_", "-"}

IsWordChar(s, i) == SubSeq(s, i, i) \in WordChars

\* domain_filter.match(dest_host) with r'^.*?(?P<hostname>[-\w]+)\s?', and the
\* replacement of lines 281-283: the lazy prefix ends at the first word
\* character, the hostname group is the run of word characters that starts
\* there; without a word character nothing matches and the name is kept
filtered_name(dest_host) ==
    LET starts == {i \in 1..Len(dest_host) : IsWordChar(dest_host, i)}
    IN  IF starts = {} THEN dest_host
        ELSE LET b == CHOOSE i \in starts : \A j \in starts : i <= j
                 e == CHOOSE i \in b..Len(dest_host) :
                         /\ \A j \in b..i : IsWordChar(dest_host, j)
                         /\ (i = Len(dest_host) \/ ~IsWordChar(dest_host, i + 1))
             IN  SubSeq(dest_host, b, e)

(***************************************************************************)
(* OS inference: get_os                                                    *)
(***************************************************************************)

\* a slip of lines 516-524: the NX-OS test comes first
get_os_nxos_first(system_string, platform_name) ==
    IF IsSubstring("NX-OS", system_string) \/ IsSubstring("NX-OS", platform_name)
    THEN "nxos"
    ELSE IF IsSubstring("IOS", system_string) \/ IsSubstring("IOS", platform_name)
    THEN IF IsSubstring("XE", system_string) \/ IsSubstring("XE", platform_name)
         THEN "iosxe"
         ELSE IF IsSubstring("XR", system_string) \/ IsSubstring("XR", platform_name)
              THEN "iosxr"
              ELSE "ios"
    ELSE None

get_os(system_string, platform_name) ==
    IF IsSubstring("IOS", system_string) \/ IsSubstring("IOS", platform_name)
    THEN IF IsSubstring("XE", system_string) \/ IsSubstring("XE", platform_name)
         THEN "iosxe"
         ELSE IF IsSubstring("XR", system_string) \/ IsSubstring("XR", platform_name)
              THEN "iosxr"
              ELSE "ios"
    ELSE IF IsSubstring("NX-OS", system_string) \/ IsSubstring("NX-OS", platform_name)
         THEN "nxos"
         ELSE None

(***************************************************************************)
(* Addresses.  An IPv4 address is the dotted string the parsers give; a    *)
(* network (an ipaddress.ip_network object) is [address, prefixlen].       *)
(***************************************************************************)

Pow2(n) == CASE n = 0 -> 1 [] n = 1 -> 2 [] n = 2 -> 4 [] n = 3 -> 8 [] n = 4 -> 16
             [] n = 5 -> 32 [] n = 6 -> 64 [] n = 7 -> 128 [] n = 8 -> 256

DigitValue(c) ==
    CASE c = "0" -> 0 [] c = "1" -> 1 [] c = "2" -> 2 [] c = "3" -> 3 [] c = "4" -> 4
      [] c = "5" -> 5 [] c = "6" -> 6 [] c = "7" -> 7 [] c = "8" -> 8 [] c = "9" -> 9

RECURSIVE Decimal(_)
Decimal(s) ==
    IF Len(s) = 0 THEN 0
    ELSE Decimal(SubSeq(s, 1, Len(s) - 1)) * 10 + DigitValue(SubSeq(s, Len(s), Len(s)))

\* the four octets of a dotted IPv4 address, as ipaddress.IPv4Address reads them
Octets(ip) ==
    LET dots == {i \in 1..Len(ip) : SubSeq(ip, i, i) = "."}
        d1 == CHOOSE i \in dots : \A j \in dots : i <= j
        d3 == CHOOSE i \in dots : \A j \in dots : i >= j
        d2 == CHOOSE i \in dots : i # d1 /\ i # d3
    IN  << Decimal(SubSeq(ip, 1, d1 - 1)), Decimal(SubSeq(ip, d1 + 1, d2 - 1)),
           Decimal(SubSeq(ip, d2 + 1, d3 - 1)), Decimal(SubSeq(ip, d3 + 1, Len(ip))) >>

\* ipaddress.IPv4Address(ip) in net, lines 318, 324 and 401
InNetwork(ip, net) ==
    LET whole == net.prefixlen \div 8
        rest == net.prefixlen % 8
        a == Octets(ip)
        b == Octets(net.address)
    IN  /\ \A k \in 1..whole : a[k] = b[k]
        /\ rest # 0 => a[whole + 1] \div Pow2(8 - rest) = b[whole + 1] \div Pow2(8 - rest)

(***************************************************************************)
(* Device Registry: add_to_device_list                                     *)
(* device_list is a sequence of facts                                      *)
(*   [name, ports, ip, os, finder, new_device]   (a discovered device)     *)
(*   [name, ports, new_device]                   (a finder placeholder)    *)
(***************************************************************************)

Listed(dl, name) == \E k \in 1..Len(dl) : dl[k].name = name

IndexOf(dl, name) == CHOOSE k \in 1..Len(dl) : dl[k].name = name

FactOf(dl, name) == dl[IndexOf(dl, name)]

\* a slip of lines 452-453: the OS guess is always stored
MergeOsOverwrite(old, os) == os

\* lines 452-453: the OS guess fills an unset os only
MergeOs(old, os) == IF old = None THEN os ELSE old

\* a slip of lines 449-454: a rediscovery stores its own finder
RecordRemoteRefind(dl, dest_host, dest_port, int_address, mgmt_address, os, discover_name) ==
    IF ~Listed(dl, dest_host)
    THEN [returned |-> FALSE,
          dl |-> Append(dl, [name |-> dest_host,
                             ports |-> {dest_port},
                             ip |-> mgmt_address,
                             os |-> os,
                             finder |-> <<discover_name, int_address \ mgmt_address>>,
                             new_device |-> TRUE])]
    ELSE LET k == IndexOf(dl, dest_host)
             ported == [dl EXCEPT ![k].ports = @ \cup {dest_port}]
         IN  IF ~dl[k].new_device
             THEN [returned |-> TRUE, dl |-> ported]
             ELSE [returned |-> FALSE,
                   dl |-> [ported EXCEPT ![k].os = MergeOs(@, os),
                                         ![k].ip = @ \cup mgmt_address,
                                         ![k].finder = <<discover_name,
                                                         int_address \ mgmt_address>>]]

\* lines 436-454: the entry of the remote host; returned is TRUE when the
\* function returns at line 451
RecordRemote(dl, dest_host, dest_port, int_address, mgmt_address, os, discover_name) ==
    IF ~Listed(dl, dest_host)
    THEN [returned |-> FALSE,
          dl |-> Append(dl, [name |-> dest_host,
                             ports |-> {dest_port},
                             ip |-> mgmt_address,
                             os |-> os,
                             finder |-> <<discover_name, int_address \ mgmt_address>>,
                             new_device |-> TRUE])]
    ELSE LET k == IndexOf(dl, dest_host)
             ported == [dl EXCEPT ![k].ports = @ \cup {dest_port}]
         IN  IF ~dl[k].new_device
             THEN [returned |-> TRUE, dl |-> ported]
             ELSE [returned |-> FALSE,
                   dl |-> [ported EXCEPT ![k].os = MergeOs(@, os),
                                         ![k].ip = @ \cup mgmt_address]]

\* lines 456-461: the entry of the discovering device (line 461 adds the
\* interface to the port set of dest_host)
RecordFinder(dl, dest_host, discover_name, interface) ==
    IF ~Listed(dl, discover_name)
    THEN Append(dl, [name |-> discover_name, ports |-> {interface}, new_device |-> FALSE])
    ELSE [dl EXCEPT ![IndexOf(dl, dest_host)].ports = @ \cup {interface}]

add_to_device_list(dl, dest_host, dest_port, int_address, mgmt_address, os, discover_name, interface) ==
    LET remote == RecordRemote(dl, dest_host, dest_port, int_address, mgmt_address,
                               os, discover_name)
    IN  IF remote.returned THEN remote.dl
        ELSE RecordFinder(remote.dl, dest_host, discover_name, interface)

(***************************************************************************)
(* Connection Ledger: add_to_device_connections                            *)
(* A ledger is a sequence of [interface, entries], entries a sequence of   *)
(* [dest_host, dest_port].                                                 *)
(***************************************************************************)

HasInterface(ledger, interface) ==
    \E k \in 1..Len(ledger) : ledger[k].interface = interface

EntriesOf(ledger, interface) ==
    ledger[CHOOSE k \in 1..Len(ledger) : ledger[k].interface = interface].entries

\* a slip of the uniqueness scan: it compares the remote host only
EntryFoundHostOnly(entries, dest_host, dest_port) ==
    \E j \in 1..Len(entries) : entries[j].dest_host = dest_host

\* the for/else scan of lines 492-504: TRUE when the loop breaks
EntryFound(entries, dest_host, dest_port) ==
    \E j \in 1..Len(entries) :
        entries[j].dest_host = dest_host /\ entries[j].dest_port = dest_port

add_to_device_connections(ledger, dest_host, dest_port, interface) ==
    LET new_entry == [dest_host |-> dest_host, dest_port |-> dest_port]
    IN  IF ~HasInterface(ledger, interface)
        THEN Append(ledger, [interface |-> interface, entries |-> <<new_entry>>])
        ELSE [k \in 1..Len(ledger) |->
                IF ledger[k].interface = interface
                   /\ ~EntryFound(ledger[k].entries, dest_host, dest_port)
                THEN [ledger[k] EXCEPT !.entries = Append(@, new_entry)]
                ELSE ledger[k]]


(***************************************************************************)
(* The inventory.  A device is [name, os, credentials, interfaces,         *)
(* connections]: credentials is the username of its default credential;    *)
(* interfaces maps each interface name of the device to the id of the Link *)
(* its `link` attribute refers to (0 for None); connections is a sequence  *)
(* of [name, protocol, ip, proxy].  A proxy is [kind, name, ref]: absent   *)
(* (kind "absent"), a proxy name (kind "name") or a list of steps (kind    *)
(* "chain"), which is the object proxy_chains[ref], a sequence of          *)
(* [device, command].  A Link is [name, interfaces]: name is the number n  *)
(* of 'Link_n', interfaces the list link.interfaces of endpoints           *)
(* <<device, interface>>.  tb is [devices, links, proxy_chains, raised].   *)
(***************************************************************************)

NoProxy == [kind |-> "absent", name |-> None, ref |-> 0]
NameProxy(name) == [kind |-> "name", name |-> name, ref |-> 0]
ChainProxy(ref) == [kind |-> "chain", name |-> None, ref |-> ref]

Connection(name, protocol, ip, proxy) ==
    [name |-> name, protocol |-> protocol, ip |-> ip, proxy |-> proxy]

Device(name, os, interfaces, connections) ==
    [name |-> name, os |-> os, credentials |-> "admin",
     interfaces |-> [i \in interfaces |-> 0], connections |-> connections]

InTestbed(devs, name) == \E k \in 1..Len(devs) : devs[k].name = name

DeviceOf(devs, name) == devs[CHOOSE k \in 1..Len(devs) : devs[k].name = name]

DeviceNames(devs) == {devs[k].name : k \in 1..Len(devs)}

\* testbed.devices[dev].interfaces[intf] does not raise KeyError
HasEndpoint(devs, dev, intf) ==
    InTestbed(devs, dev) /\ intf \in DOMAIN DeviceOf(devs, dev).interfaces

\* interface.link of an endpoint (0 for None)
LinkOf(devs, endpoint) == DeviceOf(devs, endpoint[1]).interfaces[endpoint[2]]

Endpoints(devs) ==
    UNION {{<<devs[k].name, i>> : i \in DOMAIN devs[k].interfaces} : k \in 1..Len(devs)}

\* testbed.links: the links the interfaces of the testbed's devices refer to
TestbedLinks(devs) == {LinkOf(devs, e) : e \in Endpoints(devs)} \ {0}

SeqToSet(sq) == {sq[k] : k \in 1..Len(sq)}

\* link.connect_interface(endpoint) of the topology library: the endpoint is
\* appended to link.interfaces and its `link` attribute is set to the link
\* (a link the endpoint belonged to before keeps it in its own list).
ConnectInterface(tb, id, endpoint) ==
    [tb EXCEPT
        !.links[id].interfaces = Append(@, endpoint),
        !.devices = [k \in 1..Len(tb.devices) |->
                        IF tb.devices[k].name = endpoint[1]
                        THEN [tb.devices[k] EXCEPT !.interfaces[endpoint[2]] = id]
                        ELSE tb.devices[k]]]

RECURSIVE ConnectAll(_, _, _, _)
ConnectAll(tb, id, int_list, k) ==
    IF k > Len(int_list) THEN tb
    ELSE ConnectAll(ConnectInterface(tb, id, int_list[k]), id, int_list, k + 1)

(***************************************************************************)
(* Neighbor Record Normalizer: _process_cdp_information and                *)
(* _process_lldp_information, one neighbor record at a time.               *)
(* st is [device_list, ledger, raised]: the registry, the ledger of the    *)
(* device being processed and the exception raised, if any.                *)
(* A CDP record is [system_name, device_id, port_id, local_interface,      *)
(* management_addresses, interface_addresses, software_version, platform]; *)
(* an LLDP record is [interface, port_id, neighbor, management_address,    *)
(* management_address_v4, system_description], neighbor being the first    *)
(* key of the record's neighbors table.  An absent field is None.          *)
(***************************************************************************)

\* a slip of lines 287 and 372: the links-only filter is left out
OnlyLinksSkipNever(dest_host, devs) == FALSE

\* lines 287 and 372
OnlyLinksSkip(dest_host, devs) == only_links /\ ~InTestbed(devs, dest_host)

\* a slip of lines 297-306 and 379-388: only the local interface is tested
InterfaceSkipLocalOnly(interface, dest_port) ==
    IsSubstring(interface, exclude_interfaces)

\* lines 297-306 and 379-388: `in` on the string self._exclude_interfaces
InterfaceSkip(interface, dest_port) ==
    \/ IsSubstring(interface, exclude_interfaces)
    \/ IsSubstring(dest_port, exclude_interfaces)

\* a slip of lines 316-328: only the management addresses are tested
CdpStopMgmtOnly(int_set, mgmt_set) ==
    \E ip \in mgmt_set : \E n \in 1..Len(exclude_networks) :
        InNetwork(ip, exclude_networks[n])

\* lines 316-328: the two product loops that set `stop`
CdpStop(int_set, mgmt_set) ==
    \/ \E ip \in int_set : \E n \in 1..Len(exclude_networks) :
          InNetwork(ip, exclude_networks[n])
    \/ \E ip \in mgmt_set : \E n \in 1..Len(exclude_networks) :
          InNetwork(ip, exclude_networks[n])

\* lines 392-394
LldpAddress(record) ==
    IF record.management_address = None
    THEN record.management_address_v4
    ELSE record.management_address

\* lines 398-408
LldpStop(ip_address) ==
    /\ ip_address # None
    /\ \E n \in 1..Len(exclude_networks) : InNetwork(ip_address, exclude_networks[n])

\* lines 278-283
CdpDestHost(connection) ==
    filtered_name(IF connection.system_name \in {None, ""}
                  THEN connection.device_id
                  ELSE connection.system_name)

\* lines 334-341 and 411-416: the record is entered in the registry and in
\* the ledger
Record(st, dest_host, dest_port, int_set, mgmt_set, os, device_name, interface) ==
    [st EXCEPT
        !.device_list = add_to_device_list(@, dest_host, dest_port, int_set, mgmt_set,
                                           os, device_name, interface),
        !.ledger = add_to_device_connections(@, dest_host, dest_port, interface)]

\* the body of the loop of _process_cdp_information, lines 273-341
ProcessCdpEntry(st, connection, device_name, devs) ==
    LET dest_host == CdpDestHost(connection)
        dest_port == connection.port_id
        interface == connection.local_interface
        int_set == connection.interface_addresses
        mgmt_set == connection.management_addresses
    IN  IF st.raised # None THEN st
        ELSE IF OnlyLinksSkip(dest_host, devs) THEN st
        ELSE IF InterfaceSkip(interface, dest_port) THEN st
        ELSE IF CdpStop(int_set, mgmt_set) THEN st
        ELSE Record(st, dest_host, dest_port, int_set, mgmt_set,
                    get_os(connection.software_version, connection.platform),
                    device_name, interface)

\* the body of the loops of _process_lldp_information, lines 360-416; line
\* 391 looks the neighbor up under the filtered name and raises KeyError
\* when filtering changed it
ProcessLldpEntry(st, record, device_name, devs) ==
    LET dest_host == filtered_name(record.neighbor)
        dest_port == record.port_id
        interface == record.interface
        ip_address == LldpAddress(record)
    IN  IF st.raised # None THEN st
        ELSE IF OnlyLinksSkip(dest_host, devs) THEN st
        ELSE IF InterfaceSkip(interface, dest_port) THEN st
        ELSE IF dest_host # record.neighbor THEN [st EXCEPT !.raised = "KeyError"]
        ELSE IF LldpStop(ip_address) THEN st
        ELSE Record(st, dest_host, dest_port, {}, {ip_address},
                    get_os(record.system_description, ""),
                    device_name, interface)

RECURSIVE ProcessCdp(_, _, _, _, _)
ProcessCdp(st, cdp, device_name, devs, k) ==
    IF k > Len(cdp) THEN st
    ELSE ProcessCdp(ProcessCdpEntry(st, cdp[k], device_name, devs),
                    cdp, device_name, devs, k + 1)

RECURSIVE ProcessLldp(_, _, _, _, _)
ProcessLldp(st, lldp, device_name, devs, k) ==
    IF k > Len(lldp) THEN st
    ELSE ProcessLldp(ProcessLldpEntry(st, lldp[k], device_name, devs),
                     lldp, device_name, devs, k + 1)

(***************************************************************************)
(* Link Grouper: _write_connections_to_testbed                             *)
(* tb is [devices, links, raised].                                         *)
(***************************************************************************)

\* 'Link_{num}'.format(num=len(testbed.links)), line 711
LinkName(devs) == Cardinality(TestbedLinks(devs))

\* Link(name, interfaces=int_list), lines 711-712
NewLink(tb, int_list) ==
    LET id == Len(tb.links) + 1
        created == [tb EXCEPT !.links =
                       Append(@, [name |-> LinkName(tb.devices), interfaces |-> <<>>])]
    IN  ConnectAll(created, id, int_list, 1)

\* the loop of lines 706-710: the interface list of a new link; "KeyError"
\* when an entry names a device or an interface the testbed does not hold
RECURSIVE BuildIntList(_, _, _, _)
BuildIntList(devs, int_list, entries, j) ==
    IF j > Len(entries) THEN int_list
    ELSE LET e == <<entries[j].dest_host, entries[j].dest_port>>
         IN  IF ~HasEndpoint(devs, e[1], e[2]) THEN "KeyError"
             ELSE BuildIntList(devs,
                               IF e \in SeqToSet(int_list) THEN int_list
                               ELSE Append(int_list, e),
                               entries, j + 1)

\* the loop of lines 719-723: extend the link of the local interface
RECURSIVE ExtendLink(_, _, _, _)
ExtendLink(tb, id, entries, j) ==
    IF j > Len(entries) THEN tb
    ELSE LET e == <<entries[j].dest_host, entries[j].dest_port>>
         IN  IF ~HasEndpoint(tb.devices, e[1], e[2])
             THEN [tb EXCEPT !.raised = "KeyError"]
             ELSE ExtendLink(IF e \in SeqToSet(tb.links[id].interfaces) THEN tb
                             ELSE ConnectInterface(tb, id, e),
                             id, entries, j + 1)

\* `interface.link is None`, line 704
HasNoLink(devs, endpoint) == LinkOf(devs, endpoint) = 0

\* the body of the loop over one ledger key, lines 696-723
WriteInterface(tb, device, interface_name, entries) ==
    IF ~HasEndpoint(tb.devices, device, interface_name)
    THEN [tb EXCEPT !.raised = "KeyError"]
    ELSE LET interface == <<device, interface_name>>
         IN  IF HasNoLink(tb.devices, interface)
             THEN LET int_list == BuildIntList(tb.devices, <<interface>>, entries, 1)
                  IN  IF int_list = "KeyError"
                      THEN [tb EXCEPT !.raised = "KeyError"]
                      ELSE NewLink(tb, int_list)
             ELSE ExtendLink(tb, LinkOf(tb.devices, interface), entries, 1)

\* `for interface_name in connection_dict[device]`, line 696
RECURSIVE WriteLedger(_, _, _, _)
WriteLedger(tb, device, ledger, k) ==
    IF tb.raised # None \/ k > Len(ledger) THEN tb
    ELSE WriteLedger(WriteInterface(tb, device, ledger[k].interface, ledger[k].entries),
                     device, ledger, k + 1)

\* `for device in connection_dict`, line 694; iterating a ledger that is
\* None raises TypeError
RECURSIVE WriteConnections(_, _, _)
WriteConnections(tb, connection_dict, k) ==
    IF tb.raised # None \/ k > Len(connection_dict) THEN tb
    ELSE IF connection_dict[k].ledger = None
         THEN [tb EXCEPT !.raised = "TypeError"]
         ELSE WriteConnections(
                 WriteLedger(tb, connection_dict[k].device, connection_dict[k].ledger, 1),
                 connection_dict, k + 1)

_write_connections_to_testbed(connection_dict, tb) ==
    WriteConnections(tb, connection_dict, 1)

\* the adjacency facts <<local endpoint, remote endpoint>> of a connection_dict
FactsOf(connection_dict) ==
    UNION {
        UNION {
            {<<<<connection_dict[k].device, connection_dict[k].ledger[i].interface>>,
               <<connection_dict[k].ledger[i].entries[j].dest_host,
                 connection_dict[k].ledger[i].entries[j].dest_port>>>>
             : j \in 1..Len(connection_dict[k].ledger[i].entries)}
            : i \in 1..Len(connection_dict[k].ledger)}
        : k \in {n \in 1..Len(connection_dict) : connection_dict[n].ledger # None}}

(***************************************************************************)
(* Proxy Chain Synthesizer and device creation: write_proxy_chain,         *)
(* create_new_device, _write_devices_into_testbed.                         *)
(* Python iterates a set in an order the program does not fix; `order` is  *)
(* [ips, proxies], two sequences that list the addresses and the proxy     *)
(* names in the order the sets are iterated in.                            *)
(***************************************************************************)

\* the elements of set, in the order of the sequence order
RECURSIVE InOrder(_, _)
InOrder(set, order) ==
    IF order = <<>> THEN <<>>
    ELSE IF Head(order) \in set THEN <<Head(order)>> \o InOrder(set, Tail(order))
    ELSE InOrder(set, Tail(order))

\* a slip of line 663: any ssh connection is taken, with or without proxy
SshConnections(conns) ==
    {k \in 1..Len(conns) : /\ conns[k].name # "defaults"
                           /\ conns[k].protocol = "ssh"}

\* lines 659-668: the connections of the finder that are ssh and carry a proxy
SshProxyConnections(conns) ==
    {k \in 1..Len(conns) : /\ conns[k].name # "defaults"
                           /\ conns[k].protocol = "ssh"
                           /\ conns[k].proxy.kind # "absent"}

\* a slip of lines 682-683: the step through the finder comes first
proxy_steps_reversed(new_proxy, conn_ip, finder_name, user, ip) ==
    << [device |-> finder_name, command |-> "ssh " \o user \o "@" \o ip],
       [device |-> new_proxy, command |-> "ssh " \o conn_ip] >>

\* lines 682-683: the two steps built when the finder's proxy is a name
proxy_steps(new_proxy, conn_ip, finder_name, user, ip) ==
    << [device |-> new_proxy, command |-> "ssh " \o conn_ip],
       [device |-> finder_name, command |-> "ssh " \o user \o "@" \o ip] >>

\* lines 659-666: the connection the search stops at
FoundConnection(conns) ==
    conns[CHOOSE k \in SshProxyConnections(conns) :
              \A j \in SshProxyConnections(conns) : k <= j]

\* write_proxy_chain, lines 654-684: [proxy, tb], the proxy returned and the
\* inventory after the call (a step list found on the finder is changed in
\* place and returned itself, lines 676-678)
write_proxy_chain(tb, finder_name, user, ip) ==
    LET conns == DeviceOf(tb.devices, finder_name).connections
        found == SshProxyConnections(conns)
    IN  IF found = {}
        THEN [proxy |-> NameProxy(finder_name), tb |-> tb]
        ELSE LET conn == conns[CHOOSE k \in found : \A j \in found : k <= j]
                 final == [device |-> finder_name, command |-> "ssh " \o user \o "@" \o ip]
             IN  IF conn.proxy.kind = "chain"
                 THEN LET old == tb.proxy_chains[conn.proxy.ref]
                          new == Append([old EXCEPT ![Len(old)].command =
                                            "ssh " \o user \o "@" \o conn.ip],
                                        final)
                      IN  [proxy |-> conn.proxy,
                           tb |-> [tb EXCEPT !.proxy_chains[conn.proxy.ref] = new]]
                 ELSE [proxy |-> ChainProxy(Len(tb.proxy_chains) + 1),
                       tb |-> [tb EXCEPT !.proxy_chains =
                                  Append(@, proxy_steps(conn.proxy.name, conn.ip,
                                                        finder_name, user, ip))]]

\* lines 599-606: one connection 'ssh<proxy>' per proxy, each left with the
\* management address iterated last
ManagementConnections(ips, proxies) ==
    IF ips = <<>> THEN <<>>
    ELSE [k \in 1..Len(proxies) |->
            Connection("ssh" \o proxies[k], "ssh", ips[Len(ips)], NameProxy(proxies[k]))]

\* lines 610-618: write_proxy_chain is called for every interface address
\* of the finder; acc is [conn, tb], conn the 'finder_proxy' connection
RECURSIVE FinderConnections(_, _, _, _, _)
FinderConnections(acc, finder_name, user, ips, k) ==
    IF k > Len(ips) THEN acc
    ELSE LET r == write_proxy_chain(acc.tb, finder_name, user, ips[k])
         IN  FinderConnections(
                 [conn |-> <<Connection("finder_proxy", "ssh", ips[k], r.proxy)>>,
                  tb |-> r.tb],
                 finder_name, user, ips, k + 1)

\* create_new_device, lines 592-637: [device, tb]
create_new_device(tb, device_data, proxies, device_name, order) ==
    LET finder == device_data.finder
        credentials == DeviceOf(tb.devices, finder[1]).credentials
        mgmt == ManagementConnections(InOrder(device_data.ip, order.ips),
                                      InOrder(proxies, order.proxies))
        via == FinderConnections([conn |-> <<>>, tb |-> tb], finder[1], credentials,
                                 InOrder(finder[2], order.ips), 1)
    IN  [device |-> [name |-> device_name,
                     os |-> device_data.os,
                     credentials |-> credentials,
                     interfaces |-> [i \in device_data.ports |-> 0],
                     connections |-> mgmt \o via.conn],
         tb |-> via.tb]

\* the output of 'show interfaces description' on a device, line 568
ShowInterfaces(device_name) == {"Ethernet0/1", "Ethernet0/2", "Ethernet0/3"}

\* a slip of lines 556-574: the interfaces named replace those of the device
AddInterfacesReplacing(tb, device_name, names) ==
    [tb EXCEPT !.devices =
        [k \in 1..Len(tb.devices) |->
            IF tb.devices[k].name = device_name
            THEN [tb.devices[k] EXCEPT !.interfaces = [i \in names |-> 0]]
            ELSE tb.devices[k]]]

\* lines 556-574: the interfaces missing on an inventory device are added
AddInterfaces(tb, device_name, names) ==
    [tb EXCEPT !.devices =
        [k \in 1..Len(tb.devices) |->
            IF tb.devices[k].name = device_name
            THEN [tb.devices[k] EXCEPT !.interfaces =
                    [i \in DOMAIN @ \cup names |-> IF i \in DOMAIN @ THEN @[i] ELSE 0]]
            ELSE tb.devices[k]]]

\* a slip of line 547: no device is taken for new
NotInTestbedNever(devs, name) == FALSE

\* line 547
NotInTestbed(devs, name) == ~InTestbed(devs, name)

\* the body of the loop of _write_devices_into_testbed, lines 545-574;
\* st is [device_list, tb]
WriteDevice(st, k, order) ==
    LET device_name == st.device_list[k].name
    IN  IF NotInTestbed(st.tb.devices, device_name)
        THEN LET r == create_new_device(st.tb, st.device_list[k], proxy_set,
                                        device_name, order)
             IN  [device_list |-> [st.device_list EXCEPT ![k].new_device = FALSE],
                  tb |-> [r.tb EXCEPT !.devices = Append(@, r.device)]]
        ELSE IF ~add_unconnected_interfaces
        THEN [st EXCEPT !.tb = AddInterfaces(@, device_name, st.device_list[k].ports)]
        ELSE [st EXCEPT !.tb = AddInterfaces(@, device_name, ShowInterfaces(device_name))]

RECURSIVE WriteDevices(_, _, _)
WriteDevices(st, k, order) ==
    IF k > Len(st.device_list) THEN st
    ELSE WriteDevices(WriteDevice(st, k, order), k + 1, order)

_write_devices_into_testbed(dl, tb, order) ==
    WriteDevices([device_list |-> dl, tb |-> tb], 1, order)

(***************************************************************************)
(* Persisted configuration: create_yaml_dict.                              *)
(* A testbed file is [devices, has_topology, topology]: devices maps a     *)
(* device name to its entry, has_topology tells whether the file has a     *)
(* topology section, topology maps a device name to [interfaces], and      *)
(* interfaces maps an interface name to [type, link], link being the name  *)
(* of the link or None when the entry has no link key.  The ipv4 key,      *)
(* which an external collaborator fills, is left out.                      *)
(***************************************************************************)
\* str.lower()
RECURSIVE Lower(_)
Lower(s) ==
    LET UpperCase == "ABCDEFGHIJKLMNOPQRSTUVWXYZ"
        LowerCase == "abcdefghijklmnopqrstuvwxyz"
        c == SubSeq(s, 1, 1)
        LowerChar == IF \E k \in 1..26 : SubSeq(UpperCase, k, k) = c
                     THEN LET k == CHOOSE k \in 1..26 : SubSeq(UpperCase, k, k) = c
                          IN  SubSeq(LowerCase, k, k)
                     ELSE c
    IN  IF s = "" THEN "" ELSE LowerChar \o Lower(SubSeq(s, 2, Len(s)))

\* interface_filter.match(interface)[0].lower(): the shortest non-empty
\* prefix that a digit follows, in lower case (interface.type)
InterfaceType(interface) ==
    LET IsDigit(s, i) ==
            SubSeq(s, i, i) \in {"0", "1", "2", "3", "4", "5", "6", "7", "8", "9"}
        k == CHOOSE k \in 2..Len(interface) :
                 /\ IsDigit(interface, k)
                 /\ \A j \in 2..(k - 1) : ~IsDigit(interface, j)
    IN  Lower(SubSeq(interface, 1, k - 1))

\* interface.link.name
LinkNameOf(tb, id) == "Link_" \o ToString(tb.links[id].name)

\* lines 759-766: the persisted entries of a device's interfaces
InterfaceDict(tb, device) ==
    [interfaces |->
        [i \in DOMAIN device.interfaces |->
            [type |-> InterfaceType(i),
             link |-> IF device.interfaces[i] # 0
                      THEN LinkNameOf(tb, device.interfaces[i])
                      ELSE None]]]

\* lines 747-755: the persisted connections of a new device; `connect` is
\* the loop variable after the loop
RECURSIVE YamlConnections(_, _, _)
YamlConnections(conns, k, conn_dict_) ==
    IF k > Len(conns) THEN conn_dict_
    ELSE YamlConnections(conns, k + 1,
             [c \in DOMAIN conn_dict_ \cup {conns[k].name} |->
                 IF c = conns[k].name
                 THEN [protocol |-> conns[k].protocol, ip |-> conns[k].ip,
                       proxy |-> conns[k].proxy]
                 ELSE conn_dict_[c]])

\* dict.update(new): the keys of both, the values of new where it has the key
DictUpdateKeepingOld(old, new) ==
    [key \in DOMAIN old \cup DOMAIN new |-> IF key \in DOMAIN old THEN old[key] ELSE new[key]]

DictUpdate(old, new) ==
    [key \in DOMAIN old \cup DOMAIN new |-> IF key \in DOMAIN new THEN new[key] ELSE old[key]]

\* dict[key] = value
DictSet(dict, key, value) ==
    [k \in DOMAIN dict \cup {key} |-> IF k = key THEN value ELSE dict[k]]

\* one turn of the loop of lines 738-769.  st is [devices, topology, connect,
\* raised]: testbed_yaml['devices'], yaml_dict['topology'], the local
\* variable `connect` (None while the name is unbound) and the exception
YamlDevice(tb, st, device, credential_dict) ==
    IF st.raised # None THEN st
    ELSE
    LET new == device.name \notin DOMAIN st.devices
        connect == IF new /\ Len(device.connections) > 0
                   THEN device.connections[Len(device.connections)].name
                   ELSE st.connect
    IN  IF new /\ connect = None
        THEN [st EXCEPT
                 !.devices = DictSet(@, device.name,
                                 [type |-> "device", os |-> device.os,
                                  credentials |-> credential_dict,
                                  connections |-> EmptyDict]),
                 !.raised = "UnboundLocalError"]
        ELSE [devices |->
                 IF new
                 THEN DictSet(st.devices, device.name,
                          [type |-> "device", os |-> device.os,
                           credentials |-> credential_dict,
                           connections |->
                               DictSet(YamlConnections(device.connections, 1, EmptyDict),
                                       "defaults",
                                       [via |-> connect])])
                 ELSE st.devices,
              topology |-> DictSet(st.topology, device.name, InterfaceDict(tb, device)),
              connect |-> connect,
              raised |-> None]

RECURSIVE YamlDevices(_, _, _, _)
YamlDevices(tb, st, k, credential_dict) ==
    IF k > Len(tb.devices) THEN st
    ELSE YamlDevices(tb, YamlDevice(tb, st, tb.devices[k], credential_dict), k + 1,
                     credential_dict)

\* lines 782-786: the topology section of a file that has one, after the
\* entries of yaml_topology were combined into it
MergeTopology(old, yaml_topology) ==
    [device \in DOMAIN old \cup DOMAIN yaml_topology |->
        IF device \notin DOMAIN yaml_topology THEN old[device]
        ELSE IF device \notin DOMAIN old THEN yaml_topology[device]
        ELSE [old[device] EXCEPT
                 !.interfaces = DictUpdate(@, yaml_topology[device].interfaces)]]

\* create_yaml_dict(testbed, testbed_yaml, credential_dict): the file that is
\* returned and the exception raised, if any
create_yaml_dict(tb, yaml, credential_dict) ==
    LET st == YamlDevices(tb,
                  [devices |-> yaml.devices, topology |-> EmptyDict,
                   connect |-> None, raised |-> None],
                  1, credential_dict)
    IN  IF st.raised # None
        THEN [yaml |-> [yaml EXCEPT !.devices = st.devices], raised |-> st.raised]
        ELSE IF ~yaml.has_topology
        THEN [yaml |-> [devices |-> st.devices, has_topology |-> TRUE,
                        topology |-> st.topology],
              raised |-> None]
        ELSE [yaml |-> [devices |-> st.devices, has_topology |-> TRUE,
                        topology |-> MergeTopology(yaml.topology, st.topology)],
              raised |-> None]

\* safe_load of the file the inventory was loaded from (lines 103-112):
\* an entry for every device, and a topology section that lists the
\* interfaces of the devices that have some
LoadedYaml(devs) ==
    [devices |->
        [name \in DeviceNames(devs) |->
            [type |-> "device", os |-> DeviceOf(devs, name).os,
             credentials |-> "credential_dict",
             connections |-> YamlConnections(DeviceOf(devs, name).connections, 1,
                                             EmptyDict)]],
     has_topology |-> \E k \in 1..Len(devs) : DOMAIN devs[k].interfaces # {},
     topology |->
        [name \in {n \in DeviceNames(devs) : DOMAIN DeviceOf(devs, n).interfaces # {}} |->
            [interfaces |->
                [i \in DOMAIN DeviceOf(devs, name).interfaces |->
                    [type |-> InterfaceType(i), link |-> None]]]]]

(***************************************************************************)
(* SpecLedger: any sequence of add_to_device_connections calls on the      *)
(* ledgers of the devices being processed.                                 *)
(***************************************************************************)

MaxLedgerCalls == 3

LedgerDevices == {"R1", "R2"}
LedgerInterfaces == {"Ethernet0/1", "Ethernet0/2"}
LedgerHosts == {"R2", "R3"}
LedgerPorts == {"Ethernet0/1", "Ethernet0/2"}

InitLedger ==
    /\ only_links = FALSE
    /\ exclude_interfaces = ""
    /\ exclude_networks = <<>>
    /\ add_unconnected_interfaces = FALSE
    /\ proxy_set = {}
    /\ device_list = <<>>
    /\ device_connections = [d \in LedgerDevices |-> <<>>]
    /\ devices = <<>>
    /\ links = <<>>
    /\ proxy_chains = <<>>
    /\ raised = None
    /\ facts = {}
    /\ calls = 0
    /\ LoopIdle
    /\ last = [op |-> "init"]

AddToDeviceConnections ==
    /\ calls < MaxLedgerCalls
    /\ \E dev \in LedgerDevices, interface \in LedgerInterfaces,
          dest_host \in LedgerHosts, dest_port \in LedgerPorts :
          /\ device_connections' =
                [device_connections EXCEPT
                    ![dev] = add_to_device_connections(@, dest_host, dest_port, interface)]
          /\ last' = [op |-> "add_to_device_connections", dev |-> dev,
                      interface |-> interface, dest_host |-> dest_host,
                      dest_port |-> dest_port,
                      present |-> /\ HasInterface(device_connections[dev], interface)
                                  /\ EntryFound(EntriesOf(device_connections[dev], interface),
                                                dest_host, dest_port)]
    /\ calls' = calls + 1
    /\ UNCHANGED <<cfgvars, loopvars, device_list, tbvars, facts>>

SpecLedger == InitLedger /\ [][AddToDeviceConnections]_vars

\* the number of entries of a ledger that record (interface, dest_host, dest_port)
CountEntry(ledger, interface, dest_host, dest_port) ==
    Cardinality(UNION {
        {<<k, j>> : j \in {i \in 1..Len(ledger[k].entries) :
                              /\ ledger[k].interface = interface
                              /\ ledger[k].entries[i].dest_host = dest_host
                              /\ ledger[k].entries[i].dest_port = dest_port}}
        : k \in 1..Len(ledger)})

\* C1 (state part): every ledger holds at most one entry per distinct
\* (localInterface, remoteHost, remotePort), and exactly one for the adjacency
\* recorded by the last call.
C1_OneEntryPerAdjacency ==
    /\ \A dev \in DOMAIN device_connections :
         \A interface \in LedgerInterfaces, h \in LedgerHosts, p \in LedgerPorts :
            CountEntry(device_connections[dev], interface, h, p) <= 1
    /\ last.op = "add_to_device_connections" =>
         CountEntry(device_connections[last.dev], last.interface,
                    last.dest_host, last.dest_port) = 1

\* C1: a call recording an adjacency that is already present leaves the ledger
\* unchanged, and after every call each ledger holds exactly one entry per
\* distinct adjacency recorded so far.
C1_LedgerIdempotent ==
    [][ /\ C1_OneEntryPerAdjacency'
        /\ \A dev \in LedgerDevices, interface \in LedgerInterfaces,
              h \in LedgerHosts, p \in LedgerPorts :
              CountEntry(device_connections'[dev], interface, h, p)
                 >= CountEntry(device_connections[dev], interface, h, p)
        /\ (last'.op = "add_to_device_connections" /\ last'.present)
              => device_connections' = device_connections ]_vars

\* C1 witness: the same adjacency has been recorded a second time
C1_Witness ==
    /\ last.op = "add_to_device_connections"
    /\ last.present
    /\ CountEntry(device_connections[last.dev], last.interface,
                  last.dest_host, last.dest_port) = 1

(***************************************************************************)
(* SpecRegistry: any sequence of add_to_device_list calls made on behalf   *)
(* of inventory devices, interleaved with _write_devices_into_testbed.     *)
(***************************************************************************)

MaxRegistryCalls == 3

RegistryHosts == {"R1", "R2"}
RegistryPorts == {"Ethernet0/1", "Ethernet0/2"}
RegistryAddresses == {"10.0.0.2", "192.168.1.2"}
RegistryOs == {None, "ios", "nxos"}

\* the ways the finder R1 is reached: directly, through the proxy "jump",
\* through a list of proxy steps
RegistryFinderConnections ==
    { <<Connection("cli", "ssh", "172.16.0.1", NoProxy)>>,
      <<Connection("cli", "ssh", "172.16.0.1", NameProxy("jump"))>>,
      <<Connection("cli", "ssh", "172.16.0.1", ChainProxy(1))>>,
      <<Connection("cli", "telnet", "172.16.0.1", NameProxy("jump"))>> }

\* every order a set can be iterated in
Orders(set) ==
    {sq \in [1..Cardinality(set) -> set] : \A e \in set : \E k \in DOMAIN sq : sq[k] = e}

InitRegistry ==
    /\ only_links = FALSE
    /\ exclude_interfaces = ""
    /\ exclude_networks = <<>>
    /\ add_unconnected_interfaces \in BOOLEAN
    /\ proxy_set = {"jump"}
    /\ device_list = <<>>
    /\ device_connections = <<>>
    /\ \E conns \in RegistryFinderConnections :
          devices = << Device("R1", "iosxe", {"Ethernet0/1", "Ethernet0/4"}, conns) >>
    /\ links = <<>>
    /\ proxy_chains = << << [device |-> "jump", command |-> "ssh 172.16.0.254"] >> >>
    /\ raised = None
    /\ facts = {}
    /\ calls = 0
    /\ LoopIdle
    /\ last = [op |-> "init"]

AddToDeviceList ==
    /\ calls < MaxRegistryCalls
    /\ \E dest_host \in RegistryHosts, dest_port \in RegistryPorts,
          int_address \in {{}, RegistryAddresses},
          mgmt_address \in SUBSET {"10.0.0.2"},
          os \in RegistryOs, discover_name \in RegistryHosts :
          /\ InTestbed(devices, discover_name)
          /\ device_list' = add_to_device_list(device_list, dest_host, dest_port,
                                               int_address, mgmt_address, os,
                                               discover_name, "Ethernet0/1")
          /\ last' = [op |-> "add_to_device_list", dest_host |-> dest_host, os |-> os,
                       discover_name |-> discover_name]
    /\ calls' = calls + 1
    /\ UNCHANGED <<cfgvars, loopvars, device_connections, tbvars, facts>>

WriteDevicesIntoTestbed ==
    /\ last.op = "add_to_device_list"
    /\ \E ips \in Orders(RegistryAddresses), proxies \in Orders(proxy_set) :
          LET st == _write_devices_into_testbed(
                        device_list,
                        [devices |-> devices, links |-> links,
                         proxy_chains |-> proxy_chains],
                        [ips |-> ips, proxies |-> proxies])
          IN  /\ device_list' = st.device_list
              /\ devices' = st.tb.devices
              /\ proxy_chains' = st.tb.proxy_chains
    /\ last' = [op |-> "_write_devices_into_testbed"]
    /\ UNCHANGED <<cfgvars, loopvars, device_connections, links, raised, facts, calls>>

NextRegistry == AddToDeviceList \/ WriteDevicesIntoTestbed

SpecRegistry == InitRegistry /\ [][NextRegistry]_vars

\* the fact carries an os field (the entry made for a discovering device at
\* lines 457-459 carries none)
HasOs(fact) == "os" \in DOMAIN fact

\* C10: OS monotonicity.  In every step, a fact whose os is not None keeps
\* its os whatever the call and its guess are, and a pending fact whose
\* os is None takes the guess of an add_to_device_list call made for it
\* when that guess is not None.
C10_OsMonotone ==
    [][\A k \in 1..Len(device_list) :
          HasOs(device_list[k]) =>
             /\ k <= Len(device_list')
             /\ device_list'[k].name = device_list[k].name
             /\ HasOs(device_list'[k])
             /\ device_list[k].os # None => device_list'[k].os = device_list[k].os
             /\ ( /\ device_list[k].os = None
                  /\ device_list[k].new_device
                  /\ last'.op = "add_to_device_list"
                  /\ last'.dest_host = device_list[k].name
                  /\ last'.os # None )
                => device_list'[k].os = last'.os]_vars

\* a call for a fact with a resolved os brought a different guess (None
\* included) and the os stayed; another fact was filled from None
C10_Witness ==
    /\ last.op = "add_to_device_list"
    /\ Listed(device_list, last.dest_host)
    /\ HasOs(FactOf(device_list, last.dest_host))
    /\ FactOf(device_list, last.dest_host).os \notin {None, last.os}
    /\ FactOf(device_list, last.dest_host).new_device

\* the fact carries a finder (the entry made for a discovering device at
\* lines 457-459 carries none)
HasFinder(fact) == "finder" \in DOMAIN fact

\* C11: finder immutability.  In every step, a fact that carries a finder
\* pair (discovering device, interface addresses) carries the same pair
\* after the step.
C11_FinderImmutable ==
    [][\A k \in 1..Len(device_list) :
          HasFinder(device_list[k]) =>
             /\ k <= Len(device_list')
             /\ device_list'[k].name = device_list[k].name
             /\ HasFinder(device_list'[k])
             /\ device_list'[k].finder = device_list[k].finder]_vars

\* C11 witness: a pending fact has been rediscovered by a device other than
\* its finder, after a call that brought other interface addresses
C11_Witness ==
    /\ last.op = "add_to_device_list"
    /\ Listed(device_list, last.dest_host)
    /\ HasFinder(FactOf(device_list, last.dest_host))
    /\ FactOf(device_list, last.dest_host).new_device
    /\ FactOf(device_list, last.dest_host).finder[1] # last.discover_name
    /\ calls >= 2

\* C13: in every fact the interface addresses of the finder and the
\* management addresses are disjoint
C13_FinderAddressesDisjoint ==
    \A k \in 1..Len(device_list) :
        HasFinder(device_list[k]) =>
            device_list[k].finder[2] \cap device_list[k].ip = {}

\* the port set of every entry of the registry
PortSets(dl) == {<<dl[k].name, dl[k].ports>> : k \in 1..Len(dl)}

\* C14: in every registry state, calling add_to_device_list twice in a row
\* with identical arguments leaves every port set as it was after the first
\* call
C14_PortSetIdempotent ==
    \A dest_host \in RegistryHosts, dest_port \in RegistryPorts,
       int_address \in {{}, RegistryAddresses},
       mgmt_address \in SUBSET {"10.0.0.2"},
       os \in RegistryOs, discover_name \in RegistryHosts :
        InTestbed(devices, discover_name) =>
            LET once == add_to_device_list(device_list, dest_host, dest_port,
                                           int_address, mgmt_address, os,
                                           discover_name, "Ethernet0/1")
                twice == add_to_device_list(once, dest_host, dest_port,
                                            int_address, mgmt_address, os,
                                            discover_name, "Ethernet0/1")
            IN  PortSets(twice) = PortSets(once)

\* C22: in every registry state, a call for a remote host that has no entry
\* (and is not the discovering device itself) leaves an entry for it with
\* ports = {dest_port}, ip = the management addresses, os = the OS guess,
\* finder = (discovering device, interface addresses minus management
\* addresses) and new_device = True
C22_NewRemoteEntry ==
    \A dest_host \in RegistryHosts \cup {"R3"}, dest_port \in RegistryPorts,
       int_address \in {{}, RegistryAddresses},
       mgmt_address \in SUBSET {"10.0.0.2"},
       os \in RegistryOs, discover_name \in RegistryHosts :
        (/\ InTestbed(devices, discover_name)
         /\ dest_host # discover_name
         /\ ~Listed(device_list, dest_host)) =>
            LET dl == add_to_device_list(device_list, dest_host, dest_port,
                                         int_address, mgmt_address, os,
                                         discover_name, "Ethernet0/1")
            IN  /\ Listed(dl, dest_host)
                /\ FactOf(dl, dest_host) =
                       [name |-> dest_host,
                        ports |-> {dest_port},
                        ip |-> mgmt_address,
                        os |-> os,
                        finder |-> <<discover_name, int_address \ mgmt_address>>,
                        new_device |-> TRUE]

\* C23: in every registry state, after a call the discovering device has an
\* entry whose port set contains the discovering interface: a placeholder
\* [ports = {interface}, new_device = False] if it had none, its former
\* entry with the interface added to its ports if it had one
C23_FinderPortRecorded ==
    \A dest_host \in RegistryHosts \cup {"R3"}, dest_port \in RegistryPorts,
       mgmt_address \in SUBSET {"10.0.0.2"},
       os \in RegistryOs, discover_name \in RegistryHosts,
       interface \in {"Ethernet0/1", "Ethernet0/3"} :
        (InTestbed(devices, discover_name) /\ dest_host # discover_name) =>
            LET dl == add_to_device_list(device_list, dest_host, dest_port,
                                         {}, mgmt_address, os, discover_name, interface)
            IN  /\ Listed(dl, discover_name)
                /\ interface \in FactOf(dl, discover_name).ports
                /\ IF Listed(device_list, discover_name)
                   THEN FactOf(dl, discover_name) =
                            [FactOf(device_list, discover_name)
                                EXCEPT !.ports = @ \cup {interface}]
                   ELSE FactOf(dl, discover_name) =
                            [name |-> discover_name, ports |-> {interface},
                             new_device |-> FALSE]

\* the connections of a device that go by the name given
ConnectionsNamed(device, name) ==
    {device.connections[j] : j \in {i \in 1..Len(device.connections) :
                                      device.connections[i].name = name}}

\* C15: when a device is created whose finder is reached over an ssh
\* connection with the single proxy name P and the address F, the proxy of
\* the device's finder_proxy connection to the interface address T is the
\* chain of exactly two steps: through P to F, then through the finder to T
\* as the finder's default user
C15_SingleHopChain ==
    [][\A k \in 1..Len(devices') :
          devices'[k].name \notin DeviceNames(devices) =>
             \A c \in ConnectionsNamed(devices'[k], "finder_proxy") :
                LET finder_name == FactOf(device_list, devices'[k].name).finder[1]
                    finder_device == DeviceOf(devices, finder_name)
                    conns == finder_device.connections
                IN  ( /\ SshProxyConnections(conns) # {}
                      /\ FoundConnection(conns).proxy.kind = "name" )
                    => /\ c.proxy.kind = "chain"
                       /\ proxy_chains'[c.proxy.ref] =
                             << [device |-> FoundConnection(conns).proxy.name,
                                 command |-> "ssh " \o FoundConnection(conns).ip],
                                [device |-> finder_name,
                                 command |-> "ssh " \o finder_device.credentials
                                                    \o "@" \o c.ip] >>]_vars

\* C15 witness: R2 has been created through the finder R1, which is reached
\* through the proxy "jump", and has a finder_proxy connection
C15_Witness ==
    /\ last.op = "_write_devices_into_testbed"
    /\ InTestbed(devices, "R2")
    /\ ConnectionsNamed(DeviceOf(devices, "R2"), "finder_proxy") # {}
    /\ SshProxyConnections(DeviceOf(devices, "R1").connections) # {}
    /\ FoundConnection(DeviceOf(devices, "R1").connections).proxy = NameProxy("jump")
    /\ FactOf(device_list, "R2").finder[1] = "R1"

\* C16: in every step, the list of proxy steps a connection of an inventory
\* device holds is, after the step, the list it was before: the same length
\* and the same command in every step
C16_FinderChainUnchanged ==
    [][\A k \in 1..Len(devices) : \A j \in 1..Len(devices[k].connections) :
          devices[k].connections[j].proxy.kind = "chain" =>
              proxy_chains'[devices[k].connections[j].proxy.ref]
                  = proxy_chains[devices[k].connections[j].proxy.ref]]_vars

\* C24: in every state in which the finder R1 is reached through the step
\* list the inventory was loaded with (n = 1 step, through "jump"), a
\* write_proxy_chain call through R1 returns n + 1 steps: the original steps
\* with the last command rewritten to connect to R1's own address, then a
\* step through R1 to the target address as R1's default user
C24_ExtendedChain ==
    \A ip \in RegistryAddresses :
        LET conns == DeviceOf(devices, "R1").connections
            r == write_proxy_chain([devices |-> devices, links |-> links,
                                    proxy_chains |-> proxy_chains],
                                   "R1", DeviceOf(devices, "R1").credentials, ip)
        IN  (SshProxyConnections(conns) # {} /\ FoundConnection(conns).proxy.kind = "chain")
            => /\ r.proxy.kind = "chain"
               /\ r.tb.proxy_chains[r.proxy.ref] =
                     << [device |-> "jump", command |-> "ssh admin@172.16.0.1"],
                        [device |-> "R1", command |-> "ssh admin@" \o ip] >>

\* C25: in every step, a device created through a finder that has no
\* connection that is both ssh and carries a proxy gets the finder's name
\* as the proxy of its finder_proxy connection
C25_BareFinderName ==
    [][\A k \in 1..Len(devices') :
          devices'[k].name \notin DeviceNames(devices) =>
             \A c \in ConnectionsNamed(devices'[k], "finder_proxy") :
                LET finder_name == FactOf(device_list, devices'[k].name).finder[1]
                    conns == DeviceOf(devices, finder_name).connections
                IN  (\A j \in 1..Len(conns) :
                        ~(conns[j].protocol = "ssh" /\ conns[j].proxy.kind # "absent"))
                    => c.proxy = NameProxy(finder_name)]_vars

\* C25 witness: R2 has been created through the finder R1, whose only
\* connection carries a proxy but is telnet, and has a finder_proxy
\* connection
C25_Witness ==
    /\ last.op = "_write_devices_into_testbed"
    /\ InTestbed(devices, "R2")
    /\ ConnectionsNamed(DeviceOf(devices, "R2"), "finder_proxy") # {}
    /\ DeviceOf(devices, "R1").connections
           = <<Connection("cli", "telnet", "172.16.0.1", NameProxy("jump"))>>
    /\ FactOf(device_list, "R2").finder[1] = "R1"

\* C27: when a round's first add_to_device_list call follows the inventory
\* update of the round before, the registry holds no fact: every fact was
\* cleared when _write_devices_into_testbed consumed it
C27_FactsRoundScoped ==
    [][(last.op = "_write_devices_into_testbed" /\ last'.op = "add_to_device_list")
          => device_list = <<>>]_vars

\* C35: in every step, a device created with a non-empty proxy set has a
\* connection to every management address of its fact and a finder_proxy
\* connection to every interface address of its finder
C35_NoAddressLost ==
    [][\A k \in 1..Len(devices') :
          (proxy_set # {} /\ devices'[k].name \notin DeviceNames(devices)) =>
             LET fact == FactOf(device_list, devices'[k].name)
                 conns == devices'[k].connections
             IN  /\ \A ip \in fact.ip : \E j \in 1..Len(conns) : conns[j].ip = ip
                 /\ \A ip \in fact.finder[2] :
                       \E c \in ConnectionsNamed(devices'[k], "finder_proxy") : c.ip = ip
      ]_vars

\* the interface names of a device of the inventory
InterfaceNames(devs, name) == DOMAIN DeviceOf(devs, name).interfaces

\* C18: in every step, every device of the inventory is in the inventory
\* after the step, with every interface it had
C18_InventoryAppendOnly ==
    [][\A name \in DeviceNames(devices) :
          /\ name \in DeviceNames(devices')
          /\ InterfaceNames(devices, name) \subseteq InterfaceNames(devices', name)]_vars

\* C18 witness: a device has been added to the inventory and an interface
\* has been added to the inventory device R1
C18_Witness ==
    /\ last.op = "_write_devices_into_testbed"
    /\ InTestbed(devices, "R2")
    /\ {"Ethernet0/1", "Ethernet0/4"} \subseteq InterfaceNames(devices, "R1")
    /\ InterfaceNames(devices, "R1") # {"Ethernet0/1", "Ethernet0/4"}

(***************************************************************************)
(* SpecNormalizer: the normalizer applied to any sequence of neighbor      *)
(* records reported by the polled device R1, under any configuration.      *)
(***************************************************************************)

MaxNormalizerCalls == 2

NormInventory ==
    << Device("R1", "iosxe", {"Ethernet0/1"}, <<>>), Device("R2", "iosxe", {}, <<>>) >>

NormNetworks ==
    { <<>>, <<[address |-> "192.168.1.0", prefixlen |-> 24]>> }

NormExcludeInterfaces == {"", "Ethernet0/3", "Ethernet0/10 Ethernet0/3"}

NormCdpRecords ==
    { [system_name |-> h[1], device_id |-> h[2],
       local_interface |-> interface, port_id |-> port,
       management_addresses |-> a[1], interface_addresses |-> a[2],
       software_version |-> "Cisco IOS Software [Everest], IOS-XE", platform |-> "cisco CSR1000V"] :
         h \in {<<"R2.example.com", "R2">>, <<None, "R3">>},
         interface \in {"Ethernet0/1", "Ethernet0/10"},
         port \in {"Ethernet0/2", "Ethernet0/3"},
         a \in {<<{"10.0.0.2"}, {}>>,
                <<{"192.168.1.5"}, {}>>,
                <<{"10.0.0.2"}, {"192.168.1.5"}>>} }

NormLldpRecords ==
    { [interface |-> interface, port_id |-> port, neighbor |-> h,
       management_address |-> a[1], management_address_v4 |-> a[2],
       system_description |-> "Cisco Nexus Operating System (NX-OS) Software"] :
         h \in {"R2", "R3.example.com"},
         interface \in {"Ethernet0/1", "Ethernet0/10"},
         port \in {"Ethernet0/2", "Ethernet0/3"},
         a \in {<<"10.0.0.2", None>>,
                <<None, "192.168.1.5">>,
                <<"192.168.1.5", None>>,
                <<None, None>>} }

InitNormalizer ==
    /\ only_links \in BOOLEAN
    /\ exclude_interfaces \in NormExcludeInterfaces
    /\ exclude_networks \in NormNetworks
    /\ add_unconnected_interfaces = FALSE
    /\ proxy_set = {}
    /\ device_list = <<>>
    /\ device_connections = [d \in {"R1"} |-> <<>>]
    /\ devices = NormInventory
    /\ links = <<>>
    /\ proxy_chains = <<>>
    /\ raised = None
    /\ facts = {}
    /\ calls = 0
    /\ LoopIdle
    /\ last = [op |-> "init"]

\* _process_cdp_information on a result that holds one entry
NormalizeCdp ==
    /\ calls < MaxNormalizerCalls
    /\ raised = None
    /\ \E connection \in NormCdpRecords :
          LET st == ProcessCdp([device_list |-> device_list,
                                ledger |-> device_connections["R1"],
                                raised |-> None],
                               <<connection>>, "R1", devices, 1)
          IN  /\ device_list' = st.device_list
              /\ device_connections' = [device_connections EXCEPT !["R1"] = st.ledger]
              /\ raised' = st.raised
              /\ last' = [op |-> "_process_cdp_information", record |-> connection]
    /\ calls' = calls + 1
    /\ UNCHANGED <<cfgvars, loopvars, devices, links, proxy_chains, facts>>

\* _process_lldp_information on a result that holds one neighbor
NormalizeLldp ==
    /\ calls < MaxNormalizerCalls
    /\ raised = None
    /\ \E record \in NormLldpRecords :
          LET st == ProcessLldp([device_list |-> device_list,
                                 ledger |-> device_connections["R1"],
                                 raised |-> None],
                                <<record>>, "R1", devices, 1)
          IN  /\ device_list' = st.device_list
              /\ device_connections' = [device_connections EXCEPT !["R1"] = st.ledger]
              /\ raised' = st.raised
              /\ last' = [op |-> "_process_lldp_information", record |-> record]
    /\ calls' = calls + 1
    /\ UNCHANGED <<cfgvars, loopvars, devices, links, proxy_chains, facts>>

NextNormalizer == NormalizeCdp \/ NormalizeLldp

SpecNormalizer == InitNormalizer /\ [][NextNormalizer]_vars

\* the record the last step processed came from CDP / from LLDP
LastCdp == last.op = "_process_cdp_information"
LastLldp == last.op = "_process_lldp_information"

\* the candidate addresses of a neighbor record: the CDP management and
\* interface addresses; the LLDP management address, or the IPv4 fallback
\* field when the record has no management address
CandidateAddresses(op, record) ==
    IF op = "_process_cdp_information"
    THEN record.management_addresses \cup record.interface_addresses
    ELSE IF record.management_address # None THEN {record.management_address}
    ELSE {record.management_address_v4} \ {None}

AddressExcluded(op, record) ==
    \E ip \in CandidateAddresses(op, record) : \E n \in 1..Len(exclude_networks) :
        InNetwork(ip, exclude_networks[n])

\* the entries of the exclusion interface list: the blank-separated words
\* of the configured string
ExcludedInterfaceNames ==
    {SubSeq(exclude_interfaces, i, j) :
        <<i, j>> \in {x \in (1..Len(exclude_interfaces)) \X (1..Len(exclude_interfaces)) :
            /\ x[1] <= x[2]
            /\ \A k \in x[1]..x[2] : SubSeq(exclude_interfaces, k, k) # " "
            /\ (x[1] = 1 \/ SubSeq(exclude_interfaces, x[1] - 1, x[1] - 1) = " ")
            /\ (x[2] = Len(exclude_interfaces)
                \/ SubSeq(exclude_interfaces, x[2] + 1, x[2] + 1) = " ")}}

LocalInterfaceOf(op, record) ==
    IF op = "_process_cdp_information" THEN record.local_interface ELSE record.interface

InterfaceListed(op, record) ==
    \/ LocalInterfaceOf(op, record) \in ExcludedInterfaceNames
    \/ record.port_id \in ExcludedInterfaceNames

RemoteHostOf(op, record) ==
    IF op = "_process_cdp_information" THEN CdpDestHost(record)
    ELSE filtered_name(record.neighbor)

\* C5: processing a CDP or LLDP record one of whose candidate addresses lies
\* inside a configured excluded network adds nothing to the Device Registry
\* and nothing to the Connection Ledger (and so changes no link)
C5_ExcludedAddressDropped ==
    [][ ((LastCdp' \/ LastLldp') /\ AddressExcluded(last'.op, last'.record))
            => /\ device_list' = device_list
               /\ device_connections' = device_connections
               /\ links' = links /\ devices' = devices ]_vars

\* C5 witness: a record that only its excluded interface address (CDP), or
\* only its excluded fallback address (LLDP), keeps out has been processed
C5_Witness ==
    /\ calls = MaxNormalizerCalls
    /\ device_list # <<>>
    /\ AddressExcluded(last.op, last.record)
    /\ ~only_links
    /\ exclude_interfaces = ""
    /\ \/ LastCdp /\ ~(\E ip \in last.record.management_addresses :
                           \E n \in 1..Len(exclude_networks) :
                               InNetwork(ip, exclude_networks[n]))
       \/ LastLldp /\ last.record.management_address = None /\ raised = None

\* C6: processing a CDP or LLDP record whose local interface name or remote
\* port name is an entry of the exclusion interface list changes neither the
\* Device Registry nor the Connection Ledger
C6_ExcludedInterfaceDropped ==
    [][ ((LastCdp' \/ LastLldp') /\ InterfaceListed(last'.op, last'.record))
            => /\ device_list' = device_list
               /\ device_connections' = device_connections ]_vars

\* C6 witness: a record whose remote port alone is listed, and which no other
\* filter drops, has been processed after another record was recorded
C6_Witness ==
    /\ calls = MaxNormalizerCalls
    /\ device_list # <<>>
    /\ LastCdp \/ LastLldp
    /\ last.record.port_id \in ExcludedInterfaceNames
    /\ ~IsSubstring(LocalInterfaceOf(last.op, last.record), exclude_interfaces)
    /\ ~only_links
    /\ ~AddressExcluded(last.op, last.record)
    /\ raised = None

\* the adjacency of the record is in the ledger of the polled device R1
AdjacencyRecorded(ledger, op, record) ==
    /\ HasInterface(ledger, LocalInterfaceOf(op, record))
    /\ EntryFound(EntriesOf(ledger, LocalInterfaceOf(op, record)),
                  RemoteHostOf(op, record), record.port_id)

\* C30: processing a CDP or LLDP record whose local interface name and
\* remote port name are both different from every entry of the exclusion
\* interface list, and which no other filter drops, records its adjacency
C30_InterfaceFilterDropsNothingElse ==
    [][ ( /\ LastCdp' \/ LastLldp'
          /\ ~InterfaceListed(last'.op, last'.record)
          /\ ~(only_links /\ ~InTestbed(devices, RemoteHostOf(last'.op, last'.record)))
          /\ ~AddressExcluded(last'.op, last'.record)
          /\ raised' = None )
        => AdjacencyRecorded(device_connections'["R1"], last'.op, last'.record) ]_vars

\* C31: the management-address set of every fact of the registry holds
\* addresses only, never None
C31_NoNullAddress ==
    \A k \in 1..Len(device_list) :
        "ip" \in DOMAIN device_list[k] => None \notin device_list[k].ip

(***************************************************************************)
(* SpecLinks: the link grouper applied, round after round, to any ledgers  *)
(* over the interfaces of a fixed inventory.                               *)
(***************************************************************************)

MaxLinkRounds == 2
MaxLinkEntries == 2

LinkInventory ==
    << Device("R1", "iosxe", {"Ethernet0/1", "Ethernet0/2"}, <<>>),
       Device("R2", "iosxe", {"Ethernet0/1"}, <<>>),
       Device("R3", "iosxe", {"Ethernet0/1"}, <<>>) >>

\* the entry lists of one ledger key: distinct remote endpoints, other than
\* the local one
LinkEntryLists(local) ==
    LET remote == Endpoints(LinkInventory) \ {local}
        lists == UNION {[1..n -> remote] : n \in 1..MaxLinkEntries}
    IN  {[j \in DOMAIN l |-> [dest_host |-> l[j][1], dest_port |-> l[j][2]]] :
            l \in {m \in lists : \A a, b \in DOMAIN m : a # b => m[a] # m[b]}}

LinkKeys ==
    UNION {{[device |-> local[1], interface |-> local[2], entries |-> es] :
              es \in LinkEntryLists(local)} : local \in Endpoints(LinkInventory)}

LedgerKey(key) == [interface |-> key.interface, entries |-> key.entries]

\* the connection dictionaries of one round: one ledger key, two keys of one
\* device, or one key of each of two devices, in either order
LinkDicts ==
    {<<[device |-> a.device, ledger |-> <<LedgerKey(a)>>]>> : a \in LinkKeys}
    \cup {<<[device |-> k[1].device, ledger |-> <<LedgerKey(k[1]), LedgerKey(k[2])>>]>> :
            k \in {x \in LinkKeys \X LinkKeys :
                     x[1].device = x[2].device /\ x[1].interface # x[2].interface}}
    \cup {<<[device |-> k[1].device, ledger |-> <<LedgerKey(k[1])>>],
            [device |-> k[2].device, ledger |-> <<LedgerKey(k[2])>>]>> :
            k \in {x \in LinkKeys \X LinkKeys : x[1].device # x[2].device}}

InitLinks ==
    /\ only_links = FALSE
    /\ exclude_interfaces = ""
    /\ exclude_networks = <<>>
    /\ add_unconnected_interfaces = FALSE
    /\ proxy_set = {}
    /\ device_list = <<>>
    /\ device_connections = <<>>
    /\ devices = LinkInventory
    /\ links = <<>>
    /\ proxy_chains = <<>>
    /\ raised = None
    /\ facts = {}
    /\ calls = 0
    /\ LoopIdle
    /\ last = [op |-> "init"]

GroupLinks ==
    /\ calls < MaxLinkRounds
    /\ raised = None
    /\ \E connection_dict \in LinkDicts :
          LET tb == _write_connections_to_testbed(
                        connection_dict,
                        [devices |-> devices, links |-> links,
                         proxy_chains |-> proxy_chains, raised |-> raised])
          IN  /\ devices' = tb.devices
              /\ links' = tb.links
              /\ raised' = tb.raised
              /\ facts' = facts \cup FactsOf(connection_dict)
              /\ last' = [op |-> "_write_connections_to_testbed"]
    /\ calls' = calls + 1
    /\ UNCHANGED <<cfgvars, loopvars, device_list, device_connections, proxy_chains>>

SpecLinks == InitLinks /\ [][GroupLinks]_vars

\* the links whose interface list holds the endpoint
LinksHolding(endpoint) ==
    {id \in 1..Len(links) : endpoint \in SeqToSet(links[id].interfaces)}

\* C2: no interface is a member of two distinct links
C2_OneLinkPerInterface ==
    \A e \in Endpoints(devices) : Cardinality(LinksHolding(e)) <= 1

Adjacent(a, b) == <<a, b>> \in facts \/ <<b, a>> \in facts

\* C3: when one adjacency fact connects A to B and another connects B to C,
\* then after link grouping A, B and C are members of one link
C3_LinkTransitivity ==
    \A a, b, c \in Endpoints(devices) :
        (a # c /\ Adjacent(a, b) /\ Adjacent(b, c))
            => \E id \in 1..Len(links) : {a, b, c} \subseteq SeqToSet(links[id].interfaces)

\* C17: in every round, an interface that is a member of a link (its `link`
\* attribute, which is what the persisted topology records, refers to the
\* link) is a member of the same link after the round
C17_LinksOnlyExtended ==
    [][\A e \in Endpoints(devices) :
          LinkOf(devices, e) # 0 => LinkOf(devices', e) = LinkOf(devices, e)]_vars

\* C29: no two distinct links of the inventory have the same name
C29_LinkNamesUnique ==
    \A a, b \in TestbedLinks(devices) : a # b => links[a].name # links[b].name

(***************************************************************************)
(* SpecYaml: create_yaml_dict applied to an inventory a discovery left     *)
(* behind and to any testbed file over a few devices and interfaces.       *)
(***************************************************************************)
YamlConnected(name, os, interface, conns) ==
    [name |-> name, os |-> os, credentials |-> "admin",
     interfaces |-> [i \in {interface} |-> 1], connections |-> conns]

\* R1 was loaded from the file; R2 and R3 are devices the discovery created
YamlInventories ==
    LET cli == <<Connection("cli", "ssh", "172.16.0.1", NoProxy)>>
        ssh == <<Connection("ssh", "ssh", "10.0.0.2", NoProxy)>>
        R1 == [Device("R1", "iosxe", {"Ethernet0/1", "Ethernet0/2"}, cli)
                  EXCEPT !.interfaces["Ethernet0/1"] = 1]
    IN  { << Device("R1", "iosxe", {"Ethernet0/1", "Ethernet0/2"}, cli) >>,
          << R1, YamlConnected("R2", "ios", "Ethernet0/2", ssh) >>,
          << R1, YamlConnected("R2", "ios", "Ethernet0/2", <<>>) >>,
          << R1, YamlConnected("R2", "ios", "Ethernet0/2", ssh),
             Device("R3", "nxos", {"Ethernet0/3"}, <<>>) >> }

\* an interface entry the file held before the discovery
OldEntry == [type |-> "ethernet", link |-> "Link_9"]

\* the files the inventory may have been loaded from: the devices section
\* lists R1 or every device; the topology section is absent or holds, for
\* any of R1, R2 and R9, some interfaces with entries of their own
YamlFiles(devs) ==
    LET YamlOldInterfaces ==
            [R1 |-> {S \in SUBSET {"Ethernet0/1", "Ethernet0/9"} : S # {}},
             R2 |-> {{"Ethernet0/2"}},
             R9 |-> {{"Ethernet1/1"}}]
        YamlOldTopologies ==
            UNION {[D -> UNION {YamlOldInterfaces[d] : d \in D}] :
                      D \in SUBSET {"R1", "R2", "R9"}}
    IN
    {[devices |-> [name \in listed |-> LoadedYaml(devs).devices[name]],
      has_topology |-> FALSE, topology |-> EmptyDict] :
        listed \in {{"R1"}, DeviceNames(devs)}}
    \cup
    {[devices |-> [name \in listed |-> LoadedYaml(devs).devices[name]],
      has_topology |-> TRUE,
      topology |-> [d \in DOMAIN old |-> [interfaces |-> [i \in old[d] |-> OldEntry]]]] :
        listed \in {{"R1"}, DeviceNames(devs)},
        old \in {t \in YamlOldTopologies : \A d \in DOMAIN t : t[d] \in YamlOldInterfaces[d]}}

InitYaml ==
    /\ only_links = FALSE
    /\ exclude_interfaces = ""
    /\ exclude_networks = <<>>
    /\ add_unconnected_interfaces = FALSE
    /\ proxy_set = {}
    /\ device_list = <<>>
    /\ device_connections = <<>>
    /\ devices \in YamlInventories
    /\ links = IF Len(devices) = 1 THEN <<>>
               ELSE << [name |-> 0,
                        interfaces |-> << <<"R1", "Ethernet0/1">>,
                                          <<"R2", "Ethernet0/2">> >>] >>
    /\ proxy_chains = <<>>
    /\ raised = None
    /\ pc = "idle"
    /\ visited = {}
    /\ result = <<>>
    /\ conn_dict = <<>>
    /\ round = 0
    /\ devices0 = {}
    /\ testbed_yaml \in YamlFiles(devices)
    /\ facts = {}
    /\ calls = 0
    /\ last = [op |-> "safe_load", yaml |-> NoYaml]

CreateYamlDict ==
    /\ last.op = "safe_load"
    /\ LET final_yaml == create_yaml_dict(
                              [devices |-> devices, links |-> links,
                               proxy_chains |-> proxy_chains, raised |-> None],
                              testbed_yaml, "credential_dict")
       IN  /\ testbed_yaml' = final_yaml.yaml
           /\ raised' = final_yaml.raised
    /\ last' = [op |-> "create_yaml_dict", yaml |-> testbed_yaml]
    /\ calls' = calls + 1
    /\ UNCHANGED <<cfgvars, device_list, device_connections, devices, links,
                   proxy_chains, pc, visited, result, conn_dict, round, devices0, facts>>

SpecYaml == InitYaml /\ [][CreateYamlDict]_vars

\* the interface map create_yaml_dict computes for an inventory device
NewInterfaces(name) ==
    InterfaceDict([devices |-> devices, links |-> links], DeviceOf(devices, name)).interfaces

C32_DefaultsViaOwnConnection ==
    (last.op = "create_yaml_dict" /\ raised = None) =>
        \A name \in DOMAIN testbed_yaml.devices \ DOMAIN last.yaml.devices :
            testbed_yaml.devices[name].connections["defaults"].via
                \in DOMAIN testbed_yaml.devices[name].connections \ {"defaults"}

(***************************************************************************)
(* SpecOs: get_os applied to the text fields of a neighbor record, each    *)
(* holding any combination of the markers.                                 *)
(***************************************************************************)
\* a text field that holds exactly the markers of the set given
OsText(markers) ==
    "Cisco"
    \o (IF "IOS" \in markers THEN " IOS" ELSE "")
    \o (IF "XE" \in markers THEN " XE" ELSE "")
    \o (IF "XR" \in markers THEN " XR" ELSE "")
    \o (IF "NX-OS" \in markers THEN " NX-OS" ELSE "")
    \o " Software, Version 16.9"

InitOs ==
    /\ only_links = FALSE
    /\ exclude_interfaces = ""
    /\ exclude_networks = <<>>
    /\ add_unconnected_interfaces = FALSE
    /\ proxy_set = {}
    /\ device_list = <<>>
    /\ device_connections = <<>>
    /\ devices = <<>>
    /\ links = <<>>
    /\ proxy_chains = <<>>
    /\ raised = None
    /\ facts = {}
    /\ calls = 0
    /\ LoopIdle
    /\ last = [op |-> "init", markers |-> {}, os |-> None]

\* lines 334-335 and 411: the OS guess for a record whose software version
\* (or system description) and platform hold the markers given; LLDP passes
\* an empty platform name
GetOs ==
    /\ \E in_system, in_platform \in SUBSET {"IOS", "XE", "XR", "NX-OS"} :
          \E platform_name \in {"", OsText(in_platform)} :
             last' = [op |-> "get_os",
                      markers |-> in_system \cup
                                  (IF platform_name = "" THEN {} ELSE in_platform),
                      system_string |-> OsText(in_system),
                      platform_name |-> platform_name,
                      os |-> get_os(OsText(in_system), platform_name)]
    /\ UNCHANGED <<cfgvars, loopvars, device_list, device_connections, tbvars, facts,
                   calls>>

SpecOs == InitOs /\ [][GetOs]_vars

\* C26 as stated: IOS with XE gives iosxe, IOS with XR and without XE gives
\* iosxr, IOS with neither gives ios, NX-OS gives nxos whatever else is
\* present, and no marker gives None
C26_OsInferenceAsStated ==
    last.op = "get_os" =>
        /\ ("IOS" \in last.markers /\ "XE" \in last.markers) => last.os = "iosxe"
        /\ ("IOS" \in last.markers /\ "XR" \in last.markers /\ "XE" \notin last.markers)
               => last.os = "iosxr"
        /\ ("IOS" \in last.markers /\ last.markers \cap {"XE", "XR"} = {})
               => last.os = "ios"
        /\ "NX-OS" \in last.markers => last.os = "nxos"
        /\ last.markers = {} => last.os = None

\* C26: IOS with XE gives iosxe, IOS with XR and without XE gives iosxr, IOS
\* with neither gives ios, each whether or not NX-OS is present; NX-OS
\* without IOS gives nxos; neither IOS nor NX-OS gives None
C26_OsInference ==
    last.op = "get_os" =>
        /\ ("IOS" \in last.markers /\ "XE" \in last.markers) => last.os = "iosxe"
        /\ ("IOS" \in last.markers /\ "XR" \in last.markers /\ "XE" \notin last.markers)
               => last.os = "iosxr"
        /\ ("IOS" \in last.markers /\ last.markers \cap {"XE", "XR"} = {})
               => last.os = "ios"
        /\ ("NX-OS" \in last.markers /\ "IOS" \notin last.markers) => last.os = "nxos"
        /\ last.markers \cap {"IOS", "NX-OS"} = {} => last.os = None

\* C26 witness: get_os was applied to a record whose fields hold both IOS
\* and NX-OS, one in each field
C26_Witness ==
    /\ last.op = "get_os"
    /\ {"IOS", "NX-OS"} \subseteq last.markers
    /\ ~IsSubstring("NX-OS", last.system_string)
    /\ IsSubstring("NX-OS", last.platform_name)
    /\ last.os = "ios"

(***************************************************************************)
(* Discovery Loop: _generate, process_neighbor_data and                    *)
(* get_device_connections.                                                 *)
(* result is a sequence of [device, cdp, lldp], one entry for each device  *)
(* whose poll succeeded; cdp and lldp are sequences of neighbor records    *)
(* (an empty lldp stands for total_entries = 0).  conn_dict is a sequence  *)
(* of [device, ledger].                                                    *)
(***************************************************************************)

\* get_device_connections, lines 231-254: the ledger is built in a local
\* dictionary and the function ends without a return statement (line 254 is
\* a comment), so the caller receives None
get_device_connections(data, device_name, dl, devs) ==
    LET start == [device_list |-> dl, ledger |-> <<>>, raised |-> None]
        cdp == ProcessCdp(start, data.cdp, device_name, devs, 1)
        lldp == ProcessLldp(cdp, data.lldp, device_name, devs, 1)
    IN  [device_list |-> lldp.device_list,
         device_connections |-> lldp.ledger,
         raised |-> lldp.raised,
         returns |-> None]

\* process_neighbor_data, lines 200-210; acc is [device_list, conn_dict,
\* device_connections, raised]
RECURSIVE process_neighbor_data(_, _, _, _)
process_neighbor_data(acc, devs, neighbor_data, k) ==
    IF acc.raised # None \/ k > Len(neighbor_data) THEN acc
    ELSE LET device == neighbor_data[k].device
             r == get_device_connections(neighbor_data[k], device, acc.device_list, devs)
         IN  process_neighbor_data(
                 [device_list |-> r.device_list,
                  conn_dict |-> Append(acc.conn_dict,
                                       [device |-> device, ledger |-> r.returns]),
                  device_connections |-> Append(acc.device_connections,
                                                [device |-> device,
                                                 ledger |-> r.device_connections]),
                  raised |-> r.raised],
                 devs, neighbor_data, k + 1)

\* str.split(sep) for a separator of one character
RECURSIVE SplitOn(_, _)
SplitOn(s, sep) ==
    LET at == {i \in 1..Len(s) : SubSeq(s, i, i) = sep}
    IN  IF at = {} THEN <<s>>
        ELSE LET first == CHOOSE i \in at : \A j \in at : i <= j
             IN  <<SubSeq(s, 1, first - 1)>> \o SplitOn(SubSeq(s, first + 1, Len(s)), sep)

\* str.split(): the words between runs of blanks, lines 116 and 123
Tokens(s) == SelectSeq(SplitOn(s, " "), LAMBDA t : t # "")

\* a decimal number of at most three digits
IsNumber(s) ==
    /\ Len(s) \in 1..3
    /\ \A i \in 1..Len(s) :
          SubSeq(s, i, i) \in {"0", "1", "2", "3", "4", "5", "6", "7", "8", "9"}

\* no bit of the address is set beyond the prefix
HostBitsZero(octets, prefixlen) ==
    LET whole == prefixlen \div 8
        rest == prefixlen % 8
    IN  \A k \in 1..4 :
            IF k <= whole THEN TRUE
            ELSE IF k = whole + 1 /\ rest # 0 THEN octets[k] % Pow2(8 - rest) = 0
            ELSE octets[k] = 0

\* ipaddress.ip_network(network), line 118, for IPv4 networks written as
\* address or address/prefixlen: [ok, address, prefixlen], ok FALSE where
\* the library raises ValueError
ip_network(network) ==
    LET parts == SplitOn(network, "/")
        octets == SplitOn(parts[1], ".")
        bad == [ok |-> FALSE, address |-> "", prefixlen |-> 0]
    IN  IF \/ Len(parts) > 2
           \/ Len(octets) # 4
           \/ \E k \in 1..Len(octets) : ~IsNumber(octets[k])
           \/ \E k \in 1..Len(octets) : Decimal(octets[k]) > 255
        THEN bad
        ELSE IF Len(parts) = 2 /\ (~IsNumber(parts[2]) \/ Decimal(parts[2]) > 32)
        THEN bad
        ELSE LET prefixlen == IF Len(parts) = 1 THEN 32 ELSE Decimal(parts[2])
             IN  IF ~HostBitsZero(Octets(parts[1]), prefixlen) THEN bad
                 ELSE [ok |-> TRUE, address |-> parts[1], prefixlen |-> prefixlen]

\* a slip of line 125: a mapping of more than two parts is accepted
alias_valid_lenient(alias_mapping) == Len(SplitOn(alias_mapping, ":")) >= 2

\* lines 124-126: the mapping splits in exactly two parts
alias_valid(alias_mapping) == Len(SplitOn(alias_mapping, ":")) = 2

\* lines 113-127: [raised, exclude_networks]
StandardizeArguments(exclude_network, alias) ==
    LET networks == Tokens(exclude_network)
        parsed == [k \in 1..Len(networks) |-> ip_network(networks[k])]
        aliases == Tokens(alias)
    IN  IF \E k \in 1..Len(parsed) : ~parsed[k].ok
        THEN [raised |-> "Exception", exclude_networks |-> <<>>]
        ELSE IF \E k \in 1..Len(aliases) : ~alias_valid(aliases[k])
        THEN [raised |-> "Exception", exclude_networks |-> <<>>]
        ELSE [raised |-> None,
              exclude_networks |-> [k \in 1..Len(parsed) |->
                                      [address |-> parsed[k].address,
                                       prefixlen |-> parsed[k].prefixlen]]]

\* values of the exclude_network argument
ConfigNetworks ==
    {"", "192.168.1.0/24", "192.168.1.0/24 10.0.0.0/33", "192.168.1.5/24", "backbone"}

\* values of the alias argument
ConfigAliases == {"", "R1:mgmt", "R1:mgmt R2", "R1:mgmt:ssh"}

MainAddresses == {"10.0.0.2", "10.0.0.3"}

MainInventories ==
    { <<>>,
      << Device("R1", "iosxe", {"Ethernet0/1"},
                <<Connection("cli", "ssh", "172.16.0.1", NoProxy)>>) >>,
      << Device("R1", "iosxe", {"Ethernet0/1"},
                <<Connection("cli", "ssh", "172.16.0.1", NoProxy)>>),
         Device("R2", "iosxe", {"Ethernet0/2"},
                <<Connection("cli", "ssh", "172.16.0.2", NoProxy)>>) >> }

MainCdpRecord(h) ==
    [system_name |-> None, device_id |-> h,
     local_interface |-> "Ethernet0/1", port_id |-> "Ethernet0/2",
     management_addresses |-> {"10.0.0.2"}, interface_addresses |-> {},
     software_version |-> "Cisco IOS Software [Everest], IOS-XE",
     platform |-> "cisco CSR1000V"]

MainLldpRecord(h) ==
    [interface |-> "Ethernet0/1", port_id |-> "Ethernet0/2", neighbor |-> h,
     management_address |-> "10.0.0.3", management_address_v4 |-> None,
     system_description |-> "Cisco Nexus Operating System (NX-OS) Software"]

\* what a polled device can report: nothing, one neighbor over CDP, over
\* LLDP or over both, or one neighbor over CDP on two of its interfaces
Reports(device) ==
    {[cdp |-> <<>>, lldp |-> <<>>]}
    \cup UNION {{[cdp |-> <<MainCdpRecord(h)>>, lldp |-> <<>>],
                 [cdp |-> <<>>, lldp |-> <<MainLldpRecord(h)>>],
                 [cdp |-> <<MainCdpRecord(h)>>, lldp |-> <<MainLldpRecord(h)>>],
                 [cdp |-> <<MainCdpRecord(h),
                            [MainCdpRecord(h) EXCEPT !.local_interface = "Ethernet0/3",
                                                     !.port_id = "Ethernet0/4"]>>,
                  lldp |-> <<>>]} :
                    h \in {"R1", "R2", "R3"} \ {device}}

Init ==
    /\ only_links \in BOOLEAN
    /\ exclude_interfaces = ""
    /\ exclude_networks = <<>>
    /\ add_unconnected_interfaces = FALSE
    /\ proxy_set = {"jump"}
    /\ device_list = <<>>
    /\ device_connections = <<>>
    /\ devices \in MainInventories
    /\ links = <<>>
    /\ proxy_chains = <<>>
    /\ raised = None
    /\ pc = "Configuring"
    /\ visited = {}
    /\ result = <<>>
    /\ conn_dict = <<>>
    /\ round = 0
    /\ devices0 = DeviceNames(devices)
    /\ testbed_yaml = LoadedYaml(devices)
    /\ facts = {}
    /\ calls = 0
    /\ last = [op |-> "init"]

\* lines 113-127: the arguments are standardized; a token that is not a
\* network or a malformed alias mapping raises
Configure ==
    /\ pc = "Configuring"
    /\ \E exclude_network \in ConfigNetworks, alias \in ConfigAliases :
          LET r == StandardizeArguments(exclude_network, alias)
          IN  /\ exclude_networks' = r.exclude_networks
              /\ raised' = r.raised
              /\ pc' = IF r.raised = None THEN "Polling" ELSE "Failed"
              /\ last' = [op |-> "_generate", exclude_network |-> exclude_network,
                           alias |-> alias]
    /\ UNCHANGED <<only_links, exclude_interfaces, add_unconnected_interfaces, proxy_set,
                   device_list, device_connections, devices, links, proxy_chains,
                   visited, result, conn_dict, round, devices0, testbed_yaml, facts, calls>>

\* lines 140-151: the loop condition holds; every unvisited device is
\* connected to and marked visited, and the devices whose poll succeeded
\* report their neighbor tables
Poll ==
    /\ pc = "Polling"
    /\ Len(devices) > Cardinality(visited)
    /\ \E polled \in SUBSET (DeviceNames(devices) \ visited) :
       \E report \in [polled -> UNION {Reports(d) : d \in polled}] :
          /\ \A d \in polled : report[d] \in Reports(d)
          /\ LET order == InOrder(polled, [k \in 1..Len(devices) |-> devices[k].name])
             IN  result' = [k \in 1..Len(order) |->
                               [device |-> order[k],
                                cdp |-> report[order[k]].cdp,
                                lldp |-> report[order[k]].lldp]]
    /\ visited' = visited \cup DeviceNames(devices)
    /\ round' = round + 1
    /\ pc' = "Processing"
    /\ last' = [op |-> "get_neigbor_data"]
    /\ UNCHANGED <<cfgvars, device_list, device_connections, tbvars, conn_dict,
                   devices0, testbed_yaml, facts, calls>>

\* lines 152-153
Process ==
    /\ pc = "Processing"
    /\ LET r == process_neighbor_data(
                    [device_list |-> device_list, conn_dict |-> <<>>,
                     device_connections |-> <<>>, raised |-> None],
                    devices, result, 1)
       IN  /\ device_list' = r.device_list
           /\ conn_dict' = r.conn_dict
           /\ device_connections' = r.device_connections
           /\ raised' = r.raised
           /\ pc' = IF r.raised = None THEN "WritingDevices" ELSE "Failed"
    /\ last' = [op |-> "process_neighbor_data"]
    /\ UNCHANGED <<cfgvars, devices, links, proxy_chains, visited, result, round,
                   devices0, testbed_yaml, facts, calls>>

\* lines 157-158
WriteDevicesStep ==
    /\ pc = "WritingDevices"
    /\ \E ips \in Orders(MainAddresses), proxies \in Orders(proxy_set) :
          LET st == _write_devices_into_testbed(
                        device_list,
                        [devices |-> devices, links |-> links,
                         proxy_chains |-> proxy_chains, raised |-> None],
                        [ips |-> ips, proxies |-> proxies])
          IN  /\ device_list' = st.device_list
              /\ devices' = st.tb.devices
              /\ proxy_chains' = st.tb.proxy_chains
    /\ pc' = "WritingConnections"
    /\ last' = [op |-> "_write_devices_into_testbed"]
    /\ UNCHANGED <<cfgvars, device_connections, links, raised, visited, result,
                   conn_dict, round, devices0, testbed_yaml, facts, calls>>

\* lines 160-163
WriteConnectionsStep ==
    /\ pc = "WritingConnections"
    /\ LET tb == _write_connections_to_testbed(
                     conn_dict,
                     [devices |-> devices, links |-> links,
                      proxy_chains |-> proxy_chains, raised |-> None])
       IN  /\ devices' = tb.devices
           /\ links' = tb.links
           /\ raised' = tb.raised
           /\ pc' = IF tb.raised # None THEN "Failed"
                    ELSE IF only_links THEN "Finishing"
                    ELSE "Polling"
    /\ last' = [op |-> "_write_connections_to_testbed"]
    /\ UNCHANGED <<cfgvars, device_list, device_connections, proxy_chains, visited,
                   result, conn_dict, round, devices0, testbed_yaml, facts, calls>>

\* line 140: the loop condition fails; lines 165-181 follow
Exit ==
    /\ \/ pc = "Finishing"
       \/ pc = "Polling" /\ ~(Len(devices) > Cardinality(visited))
    /\ LET final_yaml == create_yaml_dict(
                              [devices |-> devices, links |-> links,
                               proxy_chains |-> proxy_chains, raised |-> None],
                              testbed_yaml, "credential_dict")
       IN  /\ testbed_yaml' = final_yaml.yaml
           /\ raised' = final_yaml.raised
           /\ pc' = IF final_yaml.raised # None THEN "Failed" ELSE "Done"
    /\ last' = [op |-> "create_yaml_dict"]
    /\ UNCHANGED <<cfgvars, device_list, device_connections, devices, links,
                   proxy_chains, visited, result, conn_dict, round, devices0, facts,
                   calls>>

Next == Configure \/ Poll \/ Process \/ WriteDevicesStep \/ WriteConnectionsStep \/ Exit

Spec == Init /\ [][Next]_vars

\* the adjacencies <<local endpoint, remote endpoint>> the polled devices
\* reported in this round
Reported ==
    UNION {
        {<<<<result[k].device, result[k].cdp[j].local_interface>>,
           <<CdpDestHost(result[k].cdp[j]), result[k].cdp[j].port_id>>>> :
              j \in 1..Len(result[k].cdp)}
        \cup
        {<<<<result[k].device, result[k].lldp[j].interface>>,
           <<filtered_name(result[k].lldp[j].neighbor), result[k].lldp[j].port_id>>>> :
              j \in 1..Len(result[k].lldp)}
        : k \in 1..Len(result)}

\* the adjacency is recorded for its device in what process_neighbor_data
\* returned
RecordedFor(adjacency) ==
    \E k \in 1..Len(conn_dict) :
        /\ conn_dict[k].device = adjacency[1][1]
        /\ conn_dict[k].ledger # None
        /\ HasInterface(conn_dict[k].ledger, adjacency[1][2])
        /\ EntryFound(EntriesOf(conn_dict[k].ledger, adjacency[1][2]),
                      adjacency[2][1], adjacency[2][2])

\* a link groups the two endpoints
Grouped(a, b) ==
    /\ HasEndpoint(devices, a[1], a[2])
    /\ HasEndpoint(devices, b[1], b[2])
    /\ LinkOf(devices, a) # 0
    /\ LinkOf(devices, a) = LinkOf(devices, b)

\* C4: after the processing and materializing steps of a round, every
\* adjacency a polled device reported that no filter drops (none is
\* configured here but links-only mode) is recorded for that device and a
\* link groups its two endpoints
C4_RoundLinksAdjacencies ==
    last.op = "_write_connections_to_testbed" =>
        \A adjacency \in Reported :
            (only_links => adjacency[2][1] \in devices0) =>
                /\ RecordedFor(adjacency)
                /\ Grouped(adjacency[1], adjacency[2])

\* C7: in links-only mode the inventory holds, in every state of the
\* discovery, exactly the devices it held at discovery start
C7_LinksOnlyKeepsInventory ==
    only_links => DeviceNames(devices) = devices0

\* C7 witness: a links-only discovery has ended after a round in which a
\* polled device reported a neighbor that the inventory does not hold
C7_Witness ==
    /\ only_links
    /\ pc \in {"Done", "Failed"}
    /\ last.op = "_write_connections_to_testbed"
    /\ \E adjacency \in Reported : adjacency[2][1] \notin devices0

\* the discovery was ended by an exception raised in a round of the loop
Aborted == pc = "Failed" /\ round > 0

\* C8: the discovery loop reaches Done.  Every step of the loop but Done
\* has a next step unless an exception ends the discovery, and every round
\* visits at least one more device of a finite universe: the loop reaches
\* Done exactly when the discovery is never aborted.
C8_LoopReachesDone == ~Aborted

\* C9: in links-only mode, a discovery that starts from an inventory that
\* holds a device is not aborted and is in its terminal step only after
\* exactly one round
C9_LinksOnlyOneRound ==
    (only_links /\ devices0 # {}) =>
        /\ ~Aborted
        /\ pc = "Done" => round = 1

\* the materializing step of the current round has run
Materialized ==
    last.op \in {"_write_devices_into_testbed", "_write_connections_to_testbed"}

\* C12: once the devices of a round are materialized, no device of the
\* inventory has a registry entry that is still pending
C12_InventoriedNotPending ==
    Materialized =>
        \A k \in 1..Len(device_list) :
            InTestbed(devices, device_list[k].name) => ~device_list[k].new_device

\* a token of the exclusion-network list is not a network
BadNetworkList(exclude_network) ==
    \E k \in 1..Len(Tokens(exclude_network)) : ~ip_network(Tokens(exclude_network)[k]).ok

\* an alias mapping does not have exactly one colon
BadAliasList(alias) ==
    \E k \in 1..Len(Tokens(alias)) :
        Cardinality({i \in 1..Len(Tokens(alias)[k]) :
                        SubSeq(Tokens(alias)[k], i, i) = ":"}) # 1

\* nothing has been polled and the registry, the ledgers, the links and the
\* inventory are as they were at discovery start
NothingDiscovered ==
    /\ round = 0
    /\ visited = {}
    /\ result = <<>>
    /\ device_list = <<>>
    /\ device_connections = <<>>
    /\ conn_dict = <<>>
    /\ links = <<>>
    /\ DeviceNames(devices) = devices0
    /\ \A e \in Endpoints(devices) : LinkOf(devices, e) = 0

\* C19: once the arguments have been read, a malformed exclusion network or
\* alias mapping has ended _generate with an exception and, from then on,
\* nothing is polled or changed
C19_ConfigurationFailsFast ==
    (pc # "Configuring" /\ "alias" \in DOMAIN last
        /\ (BadNetworkList(last.exclude_network) \/ BadAliasList(last.alias)))
    => /\ raised = "Exception"
       /\ pc = "Failed"
       /\ NothingDiscovered

\* C19 witness: the networks are well-formed, an alias mapping has three
\* parts, and _generate has raised on an inventory that holds devices
C19_Witness ==
    /\ pc = "Failed"
    /\ raised = "Exception"
    /\ last.op = "_generate"
    /\ ~BadNetworkList(last.exclude_network)
    /\ last.alias = "R1:mgmt:ssh"
    /\ devices # <<>>

\* C21: what process_neighbor_data returns associates every polled device
\* with the dictionary of its recorded adjacencies, never with None
C21_ConnectionsReturned ==
    last.op = "process_neighbor_data" =>
        /\ {conn_dict[k].device : k \in 1..Len(conn_dict)}
               = {result[k].device : k \in 1..Len(result)}
        /\ \A k \in 1..Len(conn_dict) : conn_dict[k].ledger # None

\* C28: in every step of the discovery, the steps of a round follow one
\* another in the order polling, processing, writing devices, writing
\* connections; polling and processing leave the devices, their interfaces
\* and the links as they are; writing devices leaves the links as they are
\* and puts every pending device into the inventory; writing connections
\* adds no device
C28_RoundOrdering ==
    [][/\ pc = "Polling" => pc' \in {"Processing", "Done", "Failed"}
       /\ pc = "Processing" => pc' \in {"WritingDevices", "Failed"}
       /\ pc = "WritingDevices" => pc' = "WritingConnections"
       /\ pc = "WritingConnections" => pc' \in {"Polling", "Finishing", "Failed"}
       /\ pc \in {"Polling", "Processing"} => (devices' = devices /\ links' = links)
       /\ pc = "WritingDevices" =>
             /\ links' = links
             /\ \A k \in 1..Len(device_list) :
                   device_list[k].new_device => InTestbed(devices', device_list[k].name)
       /\ pc = "WritingConnections" => DeviceNames(devices') = DeviceNames(devices)
      ]_vars

\* C28 witness: a round has polled, processed, promoted a device that the
\* inventory did not hold and then run the conversion of its ledger
C28_Witness ==
    /\ last.op = "_write_connections_to_testbed"
    /\ round = 1
    /\ DeviceNames(devices) # devices0
    /\ \A k \in 1..Len(device_list) : InTestbed(devices, device_list[k].name)

\* C33: when the link grouper is about to run (add_unconnected_interfaces
\* off), every local interface key of every ledger of the round and every
\* remote endpoint a ledger entry refers to is an interface of its device
\* in the inventory
C33_LedgerEndpointsExist ==
    (pc = "WritingConnections" /\ ~add_unconnected_interfaces) =>
        \A k \in 1..Len(device_connections) :
            \A j \in 1..Len(device_connections[k].ledger) :
                LET key == device_connections[k].ledger[j]
                IN  /\ HasEndpoint(devices, device_connections[k].device, key.interface)
                    /\ \A e \in 1..Len(key.entries) :
                          HasEndpoint(devices, key.entries[e].dest_host,
                                      key.entries[e].dest_port)

\* C34: once a round's reports are processed, the port set of every
\* discovered device holds only interface names that a report of the round
\* named as that device's remote port
C34_PortsAreRemotePorts ==
    pc = "WritingDevices" =>
        \A k \in 1..Len(device_list) :
            HasFinder(device_list[k]) =>
                \A port \in device_list[k].ports :
                    \E adjacency \in Reported :
                        adjacency[2] = <<device_list[k].name, port>>

(***************************************************************************)
(* The Netbox creator (netbox.py).  A device of the devices response is    *)
(* [display_name, slug, model, primary_ip4, primary_ip, primary_ip6,       *)
(* interfaces]: slug is the platform slug, the three addresses are         *)
(* "address/mask" strings, None standing for an absent object, and         *)
(* interfaces is the answer to the interface request of the device, each   *)
(* interface [name, addresses] carrying the answer to its address request. *)
(* An entry of data is [os, alias, platform, type, cli_ip, ipv6,           *)
(* credentials] and an entry of an interface map is [alias, type, ipv4,    *)
(* ipv6], None standing for an absent key.                                 *)
(***************************************************************************)
\* lines 135-153: the first valid OS that the text holds
_parse_os(os) ==
    LET valid_os == <<"com", "asa", "dnac", "ios-xe", "ios-xr", "iosxe", "iosxr",
                      "ios", "junos", "linux", "nxos", "yang">>
        found == {k \in 1..Len(valid_os) : IsSubstring(valid_os[k], os)}
    IN  IF os = None \/ os = "" \/ found = {} THEN None
        ELSE valid_os[CHOOSE k \in found : \A j \in found : k <= j]

\* line 249, under _get_info's "transformation and current"
mask_filter(ip) == IF ip = None THEN None ELSE SplitOn(ip, "/")[1]

\* container.setdefault(key, entry) on a key that holds old, entry not None
SetDefault(old, entry) == IF old # None THEN old ELSE entry

\* lines 303-333: the loop over the interfaces of one device; st is
\* [interfaces, cli_ip, found_ip].  _format_type is lines 155-172
RECURSIVE NetboxInterfaces(_, _, _)
NetboxInterfaces(st, device_name, interface_response) ==
    IF interface_response = <<>> THEN st
    ELSE
      LET _format_type(interface_type) ==
              IF IsSubstring("ethernet", interface_type) THEN "ethernet"
              ELSE IF IsSubstring("loopback", interface_type) THEN "loopback"
              ELSE None
          interface == Head(interface_response)
          blank == [alias |-> None, type |-> None, ipv4 |-> None, ipv6 |-> None]
          current0 == IF interface.name \in DOMAIN st.interfaces
                      THEN st.interfaces[interface.name] ELSE blank
          named == [current0 EXCEPT
                      !.alias = SetDefault(@, device_name \o "_" \o interface.name),
                      !.type = SetDefault(@, _format_type(Lower(interface.name)))]
          v4 == SelectSeq(interface.addresses, LAMBDA a : IsSubstring(".", a))
          v6 == SelectSeq(interface.addresses, LAMBDA a : ~IsSubstring(".", a))
          current == [named EXCEPT
                        !.ipv4 = IF v4 = <<>> THEN @ ELSE SetDefault(@, v4[1]),
                        !.ipv6 = IF v6 = <<>> THEN @ ELSE SetDefault(@, v6[1])]
          seen == interface.addresses # <<>>
      IN  NetboxInterfaces(
              [interfaces |-> DictSet(st.interfaces, interface.name, current),
               cli_ip |-> IF seen /\ ~st.found_ip
                          THEN SetDefault(st.cli_ip, mask_filter(interface.addresses[1]))
                          ELSE st.cli_ip,
               found_ip |-> st.found_ip \/ seen],
              device_name, Tail(interface_response))

\* lines 224-353: one turn of the loop over the devices; st is [data, topology]
NetboxDevice(st, device) ==
    LET DictDel(dict, key) == [k \in DOMAIN dict \ {key} |-> dict[k]]
        device_name == device.display_name
        blank == [os |-> None, alias |-> None, platform |-> None, type |-> None,
                  cli_ip |-> None, ipv6 |-> None, credentials |-> None]
        device_data0 == IF device_name \in DOMAIN st.data
                        THEN st.data[device_name] ELSE blank
        device_platform == _parse_os(IF device.slug = None THEN None
                                     ELSE Lower(device.slug))
        is_valid == device_platform # None
        ipv6 == mask_filter(device.primary_ip6)
        cli_ip == SetDefault(SetDefault(SetDefault(device_data0.cli_ip,
                                                   mask_filter(device.primary_ip4)),
                                        mask_filter(device.primary_ip)), ipv6)
        found_ip == device.primary_ip4 # None \/ device.primary_ip # None \/ ipv6 # None
        device_data1 == [device_data0 EXCEPT
                           !.os = SetDefault(@, device_platform),
                           !.alias = SetDefault(@, device_name),
                           !.platform = SetDefault(@, device_platform),
                           !.type = SetDefault(@, device.model),
                           !.cli_ip = cli_ip,
                           !.ipv6 = IF cli_ip # None /\ IsSubstring(".", cli_ip)
                                       /\ ipv6 # None
                                    THEN SetDefault(@, ipv6) ELSE @]
        interfaces0 == IF device_name \in DOMAIN st.topology
                       THEN st.topology[device_name] ELSE EmptyDict
        walked == NetboxInterfaces([interfaces |-> interfaces0,
                                    cli_ip |-> device_data1.cli_ip,
                                    found_ip |-> found_ip],
                                   device_name, device.interfaces)
        topology == DictSet(st.topology, device_name, walked.interfaces)
    IN  IF ~is_valid \/ device.interfaces = <<>>
        THEN [data |-> DictDel(st.data, device_name), topology |-> st.topology]
        ELSE IF ~walked.found_ip
        THEN [data |-> DictDel(st.data, device_name), topology |-> topology]
        ELSE [data |-> DictSet(st.data, device_name,
                               [device_data1 EXCEPT
                                   !.cli_ip = walked.cli_ip,
                                   !.credentials = SetDefault(@, "entered")]),
              topology |-> topology]

RECURSIVE NetboxDevices(_, _)
NetboxDevices(st, response) ==
    IF response = <<>> THEN st
    ELSE NetboxDevices(NetboxDevice(st, Head(response)), Tail(response))

\* lines 203-359.  returned is FALSE where the method returns None
_generate(response) ==
    LET st == NetboxDevices([data |-> EmptyDict, topology |-> EmptyDict], response)
    IN  IF response = <<>> \/ DOMAIN st.data = {}
        THEN [returned |-> FALSE, devices |-> EmptyDict, topology |-> EmptyDict]
        ELSE [returned |-> TRUE, devices |-> st.data, topology |-> st.topology]

(***************************************************************************)
(* SpecNetbox: _generate applied to the answers of a NetBox instance that  *)
(* lists up to two devices.                                                *)
(***************************************************************************)
MaxNetboxDevices == 2
MaxNetboxCalls == 1

NetboxResponses ==
    LET interface_responses ==
            { <<>>,
              << [name |-> "Ethernet0/1", addresses |-> <<>>] >>,
              << [name |-> "Ethernet0/1", addresses |-> <<>>],
                 [name |-> "Loopback0", addresses |-> <<"10.0.0.9/32">>] >>,
              << [name |-> "Ethernet0/1", addresses |-> <<"2001:db8::1/64", "10.0.0.5/24">>] >> }
        listed ==
            [display_name : {"R1", "R2"},
             slug : {None, "Cisco-IOS-XE", "vyos"},
             model : {"C9300"},
             primary_ip4 : {None, "172.16.0.1/24"},
             primary_ip : {None},
             primary_ip6 : {None, "2001:db8::2/64"},
             interfaces : interface_responses]
    IN  UNION {[1..n -> listed] : n \in 0..MaxNetboxDevices}

InitNetbox ==
    /\ only_links = FALSE
    /\ exclude_interfaces = ""
    /\ exclude_networks = <<>>
    /\ add_unconnected_interfaces = FALSE
    /\ proxy_set = {}
    /\ device_list = <<>>
    /\ device_connections = <<>>
    /\ devices = <<>>
    /\ links = <<>>
    /\ proxy_chains = <<>>
    /\ raised = None
    /\ facts = {}
    /\ calls = 0
    /\ LoopIdle
    /\ last = [op |-> "init", response |-> <<>>, testbed |-> _generate(<<>>)]

Generate ==
    /\ calls < MaxNetboxCalls
    /\ \E response \in NetboxResponses :
          last' = [op |-> "_generate", response |-> response,
                   testbed |-> _generate(response)]
    /\ calls' = calls + 1
    /\ UNCHANGED <<cfgvars, loopvars, device_list, device_connections, tbvars, facts>>

SpecNetbox == InitNetbox /\ [][Generate]_vars

\* C36: in the dictionary _generate returns, every device with an entry in
\* topology has an entry in devices, and a device skipped for lacking a valid
\* OS, interfaces or a connection IP is in neither section.
C36_TopologyDevicesListed ==
    (last.op = "_generate" /\ last.testbed.returned) =>
        LET Alone(device) ==
                NetboxDevice([data |-> EmptyDict, topology |-> EmptyDict], device)
            Skipped(device) == device.display_name \notin DOMAIN Alone(device).data
        IN  /\ DOMAIN last.testbed.topology \subseteq DOMAIN last.testbed.devices
            /\ \A k \in 1..Len(last.response) :
                  LET name == last.response[k].display_name
                  IN  (\A j \in 1..Len(last.response) :
                          last.response[j].display_name = name
                              => Skipped(last.response[j]))
                      => /\ name \notin DOMAIN last.testbed.devices
                         /\ name \notin DOMAIN last.testbed.topology
====
